---- MODULE Spec2Model ----
(***************************************************************************)
(* A model of the text-line tracer of Scan Tailor (TextLineTracer.cpp):    *)
(* region growth on the packed grid, the anisotropic distance transform,   *)
(* the region adjacency graph, the bottleneck path search over edge-nodes, *)
(* the polyline assembler and the two polyline filters.                    *)
(***************************************************************************)
EXTENDS Integers, Sequences, FiniteSets, TLC

VARIABLES
    pc,          \* the statement the traced function is at
    width,       \* int const width  (image / grid width)
    height,      \* int const height (image / grid height)
    grid,        \* Grid<GridNode>: offset from data() -> GridNode
    thick_mask,  \* BinaryImage thick_mask: the set of <<x, y>> whose bit is 1
    regions,     \* std::vector<Region>, indexed by RegionIdx + 1
    queue,       \* RegionGrowingQueue, in the order of the push() calls
    iteration,   \* uint32_t iteration of the flood loop
    edges,       \* std::set<Edge>
    left_bound,  \* QLineF left_bound  (vert_bounds.first)
    right_bound, \* QLineF right_bound (vert_bounds.second)
    edge_nodes,  \* std::vector<EdgeNode>, indexed by EdgeNodeIdx + 1
    path_queue,  \* ShortestPathQueue queue, in the order of the push() calls
    edge_node_paths, \* std::vector<std::vector<EdgeNodeIdx> >
    polylines,   \* std::list<std::vector<QPointF> > polylines
    to_orig,     \* QTransform to_orig: the scale factor of both axes
    curve_it,    \* the position of the loop over polylines that outputs them
    output,      \* DistortionModelBuilder& output: the calls made on it
    dbg,         \* DebugImages* dbg: null, or the labels of the images added
    node,        \* a GridNode taken by itself
    node_call,   \* the last call made on node: its name and its argument
    calc,        \* a CentroidCalculator taken by itself
    samples,     \* the calls of processSample made on calc, in their order
    view,        \* an ImageViewBase: the members its HQ pixmap depends on
    tasks        \* the HqTransformTask objects created, in their order

\* The variables of segmentBlurredTextLines after labelAndGrowRegions.
pathVars == <<edge_nodes, path_queue, edge_node_paths>>

\* The variables of trace() after segmentBlurredTextLines.
traceVars == <<polylines, to_orig, curve_it, output>>

\* The variables of the GridNode taken by itself.
nodeVars == <<node, node_call>>

\* The variables of the CentroidCalculator taken by itself.
calcVars == <<calc, samples>>

\* The variables of the ImageViewBase and its background tasks.
viewVars == <<view, tasks>>

vars == <<pc, width, height, grid, thick_mask, regions, queue, iteration, edges,
          left_bound, right_bound, pathVars, traceVars, dbg, nodeVars, calcVars, viewVars>>

(***************************************************************************)
(* Bounds of the model.                                                    *)
(***************************************************************************)
DTMaxWidth == 5
DTMaxHeight == 2
DTMaxLabeled == 3
GrowWidth == 3
GrowHeight == 2
MaxRegions == 2
MaxGray == 1
PathMaxEdges == 5
PathEdgePairs == 10
PathRenumberings == 2
TraceMaxPolylines == 2
TraceCurveCount == 4
TraceMaxScale == 2
PipeWidth == 3
PipeHeight == 2
NodeMaxGray == 2
NodeMaxLabel == 2
NodeMaxCarry == 1
CalcMaxX == 2
CalcMaxY == 1
CalcMaxSamples == 3
ViewMaxXform == 1
ViewMaxTasks == 2
LineNumberings == 2
LineEdgePairs == 5

\* The GridNode and the CentroidCalculator taken by themselves, where no call
\* is made on them.
InitNodeVars ==
    /\ node = [gray |-> 0, label |-> 0, finalized |-> 0]
    /\ node_call = <<>>
    /\ calc = [sumX |-> 0, sumY |-> 0, numSamples |-> 0]
    /\ samples = <<>>
    /\ view = <<>>
    /\ tasks = <<>>

\* The containers and the transform as they are constructed.
InitPathVars == edge_nodes = <<>> /\ path_queue = <<>> /\ edge_node_paths = <<>>

InitTraceVars == polylines = <<>> /\ to_orig = 1 /\ curve_it = 0 /\ output = <<>>

\* DebugImages* dbg = 0
NullSink == [null |-> TRUE, images |-> <<>>]

\* A DebugImages object no image has been added to.
EmptySink == [null |-> FALSE, images |-> <<>>]

\* dbg->add(image, label)
DbgAdd(sink, label) == [sink EXCEPT !.images = Append(@, label)]

\* The statement "if (dbg) { ... dbg->add(image, label); }" is behind: dbg is
\* null or holds the image.
DbgPassed(label) ==
    dbg.null \/ \E i \in 1 .. Len(dbg.images) : dbg.images[i] = label

\* QLineF: a line from p1 to p2; QLineF() is the null line.
QLineF(p1, p2) == [p1 |-> p1, p2 |-> p2]

NullLine == QLineF(<<0, 0>>, <<0, 0>>)

(***************************************************************************)
(* GridNode: [finalized: 1 bit][label: 23 bits][gray level: 8 bits].       *)
(***************************************************************************)
INVALID_LABEL == 0

\* The width of the label field: LABEL_MASK = 0x7FFFFF00.
LABEL_BITS == 23

\* Bit LABEL_BITS of a label, which "label << 8" moves onto the finalized
\* bit; the bits above it are shifted out of the word.
LabelCarry(label) == (label \div 2 ^ LABEL_BITS) % 2

\* m_data((finalized << 31) | (label << 8) | uint32_t(gray_level))
GridNode(gray_level, label, finalized) ==
    [gray |-> gray_level, label |-> label % 2 ^ LABEL_BITS,
     finalized |-> IF finalized % 2 = 1 \/ LabelCarry(label) = 1 THEN 1 ELSE 0]

GrayLevel(n) == n.gray

SetGrayLevel(n, gray_level) == [n EXCEPT !.gray = gray_level]

Label(n) == n.label

\* setLabel() that sets the finalized bit along with the label.
SetLabelAndFinalize(n, label) ==
    [n EXCEPT !.label = label % 2 ^ LABEL_BITS, !.finalized = 1]

\* m_data = (m_data & ~LABEL_MASK) | (label << 8)
SetLabel(n, label) ==
    [n EXCEPT !.label = label % 2 ^ LABEL_BITS,
              !.finalized = IF LabelCarry(label) = 1 THEN 1 ELSE @]

ValidRegion(n) == Label(n) # 0

RegionIdxOf(n) == Label(n) - 1

SetRegionIdx(n, idx) == SetLabel(n, idx + 1)

Finalized(n) == n.finalized

SetFinalized(n, finalized) == [n EXCEPT !.finalized = finalized]

(***************************************************************************)
(* Grid<GridNode>(width, height, padding = 1): data() is the first         *)
(* interior node, a node is addressed by its offset from data().           *)
(***************************************************************************)
GridStride == width + 2

GridOffset(x, y) == GridStride * y + x

GridOffsets == {GridOffset(x, y) : x \in -1 .. width, y \in -1 .. height}

InteriorOffsets == {GridOffset(x, y) : x \in 0 .. width - 1, y \in 0 .. height - 1}

(***************************************************************************)
(* distanceDrivenRegionGrowth: the two passes of the distance transform.   *)
(* The loop state c carries the region grid, the squared distance grid and *)
(* the local variables of the column loop.                                 *)
(***************************************************************************)
VERT_SCALE == 3

\* ~uint32_t(0) in the source; here the largest value of the model's integers.
INF_SQDIST == 2147483647

SqdistOffset(x, y) == width * y + x

\* for (; y < height && !p_region->validRegion(); ++y) *p_sqdist = INF_SQDIST;
RECURSIVE GoDownToFirstValid(_, _)
GoDownToFirstValid(c, x) ==
    IF c.y < height /\ ~ValidRegion(c.grid[GridOffset(x, c.y)])
    THEN GoDownToFirstValid(
             [c EXCEPT !.sqdist[SqdistOffset(x, c.y)] = INF_SQDIST,
                       !.y = c.y + 1], x)
    ELSE c

\* for (; y < height; ++y) { ... }  "Continue going down."
RECURSIVE ContinueGoingDown(_, _)
ContinueGoingDown(c, x) ==
    IF c.y >= height THEN c
    ELSE IF ValidRegion(c.grid[GridOffset(x, c.y)])
    THEN ContinueGoingDown(
             [c EXCEPT !.sqdist[SqdistOffset(x, c.y)] = 0,
                       !.dvs_squared = 0,
                       !.vs_plus_2dvs = VERT_SCALE,
                       !.closest_label = Label(c.grid[GridOffset(x, c.y)]),
                       !.y = c.y + 1], x)
    ELSE LET vs == c.vs_plus_2dvs + 2 * VERT_SCALE
             dvs == c.dvs_squared + VERT_SCALE * vs
         IN  ContinueGoingDown(
                 [c EXCEPT !.vs_plus_2dvs = vs,
                           !.dvs_squared = dvs,
                           !.sqdist[SqdistOffset(x, c.y)] = dvs,
                           !.grid[GridOffset(x, c.y)] = SetLabel(@, c.closest_label),
                           !.y = c.y + 1], x)

\* for (; y >= 0 && *p_sqdist != 0; --y)  "Go back up to the first valid region."
RECURSIVE GoBackUpToFirstValid(_, _)
GoBackUpToFirstValid(c, x) ==
    IF c.y >= 0 /\ c.sqdist[SqdistOffset(x, c.y)] # 0
    THEN GoBackUpToFirstValid([c EXCEPT !.y = c.y - 1], x)
    ELSE c

\* for (; y >= 0; --y) { ... }  the upward sweep
RECURSIVE ContinueGoingUp(_, _)
ContinueGoingUp(c, x) ==
    IF c.y < 0 THEN c
    ELSE IF c.sqdist[SqdistOffset(x, c.y)] = 0
    THEN ContinueGoingUp(
             [c EXCEPT !.dvs_squared = 0,
                       !.vs_plus_2dvs = VERT_SCALE,
                       !.closest_label = Label(c.grid[GridOffset(x, c.y)]),
                       !.y = c.y - 1], x)
    ELSE LET vs == c.vs_plus_2dvs + 2 * VERT_SCALE
             dvs == c.dvs_squared + VERT_SCALE * vs
             better == dvs < c.sqdist[SqdistOffset(x, c.y)]
         IN  ContinueGoingUp(
                 [c EXCEPT !.vs_plus_2dvs = vs,
                           !.dvs_squared = dvs,
                           !.sqdist[SqdistOffset(x, c.y)] = IF better THEN dvs ELSE @,
                           !.grid[GridOffset(x, c.y)] =
                               IF better THEN SetLabel(@, c.closest_label) ELSE @,
                           !.y = c.y - 1], x)

\* ColumnPass without the sweep back up: a column is labeled downwards only.
ColumnPassDownOnly(c, x) ==
    LET down == GoDownToFirstValid([c EXCEPT !.y = 0], x)
    IN  IF down.y = height
        THEN down
        ELSE ContinueGoingDown(
                 [down EXCEPT !.vs_plus_2dvs = VERT_SCALE,
                              !.dvs_squared = 0,
                              !.closest_label = 0], x)

\* The body of the first "for (int x = 0; x < width; ++x)" loop, for one column.
ColumnPass(c, x) ==
    LET down == GoDownToFirstValid([c EXCEPT !.y = 0], x)
    IN  IF down.y = height
        THEN down
        ELSE LET full == ContinueGoingDown(
                             [down EXCEPT !.vs_plus_2dvs = VERT_SCALE,
                                          !.dvs_squared = 0,
                                          !.closest_label = 0], x)
             IN  ContinueGoingUp(
                     GoBackUpToFirstValid([full EXCEPT !.y = full.y - 1], x), x)

RECURSIVE ColumnPasses(_, _)
ColumnPasses(c, x) ==
    IF x >= width THEN c ELSE ColumnPasses(ColumnPass(c, x), x + 1)

\* SqDistCalc::operator(): dx*dx + m_vertSqdists[elevated_x], on one line.
SqDistCalc(sqdist_line, elevated_x, ground_x) ==
    LET dx == elevated_x - ground_x
    IN  dx * dx + sqdist_line[elevated_x]

\* int division of C++ (truncation towards zero), for a positive divisor.
IntDiv(a, b) == IF a >= 0 THEN a \div b ELSE -((-a) \div b)

\* The while loop that discards the proximity regions x takes over.
\* prx is the part of prx_regs up to next_reg, as a sequence.
RECURSIVE DiscardLosers(_, _, _)
DiscardLosers(sqdist_line, prx, x) ==
    LET next_reg == prx[Len(prx)]
    IN  IF sqdist_line[next_reg.xOrigin] = INF_SQDIST
           \/ (sqdist_line[x] # INF_SQDIST
               /\ SqDistCalc(sqdist_line, next_reg.xOrigin, next_reg.xMaybeLeader)
                    > SqDistCalc(sqdist_line, x, next_reg.xMaybeLeader))
        THEN IF Len(prx) > 1
             THEN DiscardLosers(sqdist_line, SubSeq(prx, 1, Len(prx) - 1), x)
             ELSE <<[next_reg EXCEPT !.xOrigin = x]>>
        ELSE prx

\* x_take_over of the source, for x and the region next_x on top of the stack.
XTakeOver(sqdist_line, x, next_x) ==
    IF sqdist_line[next_x] # INF_SQDIST
    THEN IntDiv(x * x - next_x * next_x + sqdist_line[x] - sqdist_line[next_x],
                (x - next_x) * 2) + 1
    ELSE 0

\* The body of "for (int x = 1; x < width; ++x)" of the horizontal pass.
ProximityStep(sqdist_line, prx, x) ==
    LET kept == DiscardLosers(sqdist_line, prx, x)
        next_x == kept[Len(kept)].xOrigin
    IN  IF x # next_x /\ sqdist_line[x] # INF_SQDIST
        THEN LET x_take_over == XTakeOver(sqdist_line, x, next_x)
             IN  IF x_take_over >= 0 /\ x_take_over < width
                 THEN Append(kept, [xOrigin |-> x, xMaybeLeader |-> x_take_over])
                 ELSE kept
        ELSE kept

RECURSIVE ProximityRegions(_, _, _)
ProximityRegions(sqdist_line, prx, x) ==
    IF x >= width THEN prx
    ELSE ProximityRegions(sqdist_line, ProximityStep(sqdist_line, prx, x), x + 1)

\* "for (int x = width - 1; x >= 0; --x)": relabel one line from the stack.
RECURSIVE RelabelLine(_, _, _, _, _)
RelabelLine(g, y, orig_labels, prx, x) ==
    IF x < 0 THEN g
    ELSE LET next_reg == prx[Len(prx)]
             g2 == [g EXCEPT ![GridOffset(x, y)] =
                        SetLabel(@, orig_labels[next_reg.xOrigin])]
         IN  RelabelLine(g2, y, orig_labels,
                         IF next_reg.xMaybeLeader = x
                         THEN SubSeq(prx, 1, Len(prx) - 1) ELSE prx,
                         x - 1)

\* The body of "for (int y = 0; y < height; ++y)" of the horizontal pass.
RowPass(g, sqdist, y) ==
    LET sqdist_line == [x \in 0 .. width - 1 |-> sqdist[SqdistOffset(x, y)]]
        prx == ProximityRegions(sqdist_line,
                                <<[xOrigin |-> 0, xMaybeLeader |-> 0]>>, 1)
        orig_labels == [x \in 0 .. width - 1 |-> Label(g[GridOffset(x, y)])]
    IN  RelabelLine(g, y, orig_labels, prx, width - 1)

RECURSIVE RowPasses(_, _, _)
RowPasses(g, sqdist, y) ==
    IF y >= height THEN g ELSE RowPasses(RowPass(g, sqdist, y), sqdist, y + 1)

DistanceDrivenRegionGrowth(region_grid) ==
    LET c0 == [grid |-> region_grid,
               sqdist |-> [o \in 0 .. width * height - 1 |-> 0],
               y |-> 0, vs_plus_2dvs |-> VERT_SCALE, dvs_squared |-> 0,
               closest_label |-> 0]
        c == ColumnPasses(c0, 0)
    IN  RowPasses(c.grid, c.sqdist, 0)


(***************************************************************************)
(* Region, Edge and the containers of labelAndGrowRegions.                 *)
(***************************************************************************)
Region(ctroid) ==
    [centroid |-> ctroid, connectedRegions |-> <<>>,
     leftmost |-> FALSE, rightmost |-> FALSE]

\* regions[region_idx] of the source: RegionIdx counts from 0.
RegionAt(region_idx) == regions[region_idx + 1]

\* An Edge that keeps its two regions in the order given.
EdgeAsGiven(region_idx1, region_idx2) ==
    [lesserRegionIdx |-> region_idx1, greaterRegionIdx |-> region_idx2]

Edge(region_idx1, region_idx2) ==
    IF region_idx1 < region_idx2
    THEN [lesserRegionIdx |-> region_idx1, greaterRegionIdx |-> region_idx2]
    ELSE [lesserRegionIdx |-> region_idx2, greaterRegionIdx |-> region_idx1]

\* Edge::operator<
EdgeLess(lhs, rhs) ==
    IF lhs.lesserRegionIdx < rhs.lesserRegionIdx THEN TRUE
    ELSE IF lhs.lesserRegionIdx > rhs.lesserRegionIdx THEN FALSE
    ELSE lhs.greaterRegionIdx < rhs.greaterRegionIdx

\* std::set<Edge>::insert: nothing is inserted when the set holds an element
\* equivalent to edge under operator<.
EdgesInsert(set, edge) ==
    IF \E e \in set : ~EdgeLess(e, edge) /\ ~EdgeLess(edge, e)
    THEN set
    ELSE set \cup {edge}

RegionGrowingPosition(grid_offset, ord) ==
    [gridOffset |-> grid_offset, order |-> ord]

\* higherThan that compares the gray levels only.
HigherThanByGrayOnly(g, lhs, rhs) ==
    GrayLevel(g[lhs.gridOffset]) < GrayLevel(g[rhs.gridOffset])

\* RegionGrowingQueue::higherThan
HigherThan(g, lhs, rhs) ==
    IF GrayLevel(g[lhs.gridOffset]) < GrayLevel(g[rhs.gridOffset]) THEN TRUE
    ELSE IF GrayLevel(g[lhs.gridOffset]) = GrayLevel(g[rhs.gridOffset])
    THEN lhs.order < rhs.order
    ELSE FALSE

\* PriorityQueue::front(): an element no other element is higher than.  The
\* queue is kept in the order of the push() calls; which of several elements
\* of the same priority is at the front is left open.
FrontIndexes(g, q) ==
    {i \in 1 .. Len(q) : \A j \in 1 .. Len(q) : ~HigherThan(g, q[j], q[i])}

\* PriorityQueue::pop() of the element at index i.
QueuePop(q, i) == SubSeq(q, 1, i - 1) \o SubSeq(q, i + 1, Len(q))

\* PriorityQueue::push()
QueuePush(q, pos) == Append(q, pos)

\* thick_mask_line[x >> 5] >> (31 - (x & 31)) & 1
MaskBit(x, y) == IF <<x, y>> \in thick_mask THEN 1 ELSE 0

(***************************************************************************)
(* "Put region centroids into the queue."                                  *)
(***************************************************************************)
RECURSIVE PutCentroidsFrom(_, _, _)
PutCentroidsFrom(g, q, region_idx) ==
    IF region_idx >= Len(regions) THEN [grid |-> g, queue |-> q]
    ELSE LET ctroid == RegionAt(region_idx).centroid
             grid_offset == GridStride * ctroid[2] + ctroid[1]
         IN  PutCentroidsFrom(
                 [g EXCEPT ![grid_offset] =
                     SetFinalized(SetRegionIdx(@, region_idx), 1)],
                 QueuePush(q, RegionGrowingPosition(grid_offset, 0)),
                 region_idx + 1)

PutCentroids ==
    /\ pc = "centroids"
    /\ LET r == PutCentroidsFrom(grid, queue, 0)
       IN  grid' = r.grid /\ queue' = r.queue
    /\ pc' = "flood"
    /\ UNCHANGED <<dbg, nodeVars, calcVars, viewVars, width, height, thick_mask, regions, iteration, edges,
                   left_bound, right_bound, pathVars, traceVars>>

(***************************************************************************)
(* "Grow regions, but only within thick_mask.": one turn of the loop.      *)
(***************************************************************************)
NbhOffsets == <<-GridStride, -1, 1, GridStride>>

\* The spreading with the neighbour's label tested in the place of its
\* finalized bit.
RECURSIVE SpreadToUnlabeled(_, _, _, _, _)
SpreadToUnlabeled(g, q, offset, label, i) ==
    IF i > 4 THEN [grid |-> g, queue |-> q]
    ELSE LET nbh_offset == offset + NbhOffsets[i]
         IN  IF nbh_offset \in DOMAIN g /\ Label(g[nbh_offset]) = 0
             THEN SpreadToUnlabeled(
                      [g EXCEPT ![nbh_offset] = SetLabel(SetFinalized(@, 1), label)],
                      QueuePush(q, RegionGrowingPosition(nbh_offset, iteration + 1)),
                      offset, label, i + 1)
             ELSE SpreadToUnlabeled(g, q, offset, label, i + 1)

\* "Spread this value to 4-connected neighbours."
RECURSIVE Spread(_, _, _, _, _)
Spread(g, q, offset, label, i) ==
    IF i > 4 THEN [grid |-> g, queue |-> q]
    ELSE LET nbh_offset == offset + NbhOffsets[i]
         IN  IF Finalized(g[nbh_offset]) = 0
             THEN Spread([g EXCEPT ![nbh_offset] =
                             SetLabel(SetFinalized(@, 1), label)],
                         QueuePush(q, RegionGrowingPosition(nbh_offset, iteration + 1)),
                         offset, label, i + 1)
             ELSE Spread(g, q, offset, label, i + 1)

GrowStep ==
    /\ pc = "flood"
    /\ queue # <<>>
    /\ \E i \in FrontIndexes(grid, queue) :
           LET offset == queue[i].gridOffset
               r == Spread(grid, QueuePop(queue, i), offset, Label(grid[offset]), 1)
           IN  grid' = r.grid /\ queue' = r.queue
    /\ iteration' = iteration + 1
    /\ UNCHANGED <<dbg, nodeVars, calcVars, viewVars, pc, width, height, thick_mask, regions, edges,
                   left_bound, right_bound, pathVars, traceVars>>

(***************************************************************************)
(* The call distanceDrivenRegionGrowth(grid) of labelAndGrowRegions, made  *)
(* when the flood loop has ended.                                          *)
(***************************************************************************)
DistanceGrowth ==
    /\ pc = "flood"
    /\ queue = <<>>
    /\ grid' = DistanceDrivenRegionGrowth(grid)
    /\ pc' = "mark"
    /\ UNCHANGED <<dbg, nodeVars, calcVars, viewVars, width, height, thick_mask, regions, queue, iteration, edges,
                   left_bound, right_bound, pathVars, traceVars>>

(***************************************************************************)
(* SpecDT: distanceDrivenRegionGrowth as a function of the region grid.    *)
(* The grid holds up to DTMaxLabeled labeled nodes (or all but that many), *)
(* each with a label of its own; the other nodes have no label.            *)
(***************************************************************************)
PaddingNode == GridNode(0, 0, 1)

CellsOf(w, h) == (0 .. w - 1) \X (0 .. h - 1)

LabeledSets(w, h) ==
    {S \in SUBSET CellsOf(w, h) :
        Cardinality(S) <= DTMaxLabeled
        \/ Cardinality(CellsOf(w, h) \ S) <= DTMaxLabeled}

\* The label given to the node at <<x, y>>: one per node.
OwnLabel(x, y) == y * width + x + 1

IsInterior(o) == o \in InteriorOffsets

XOf(o) == (o + GridStride) % GridStride

YOf(o) == (o - XOf(o)) \div GridStride

InitDT ==
    /\ pc = "flood"
    /\ width \in 1 .. DTMaxWidth
    /\ height \in 1 .. DTMaxHeight
    /\ \E S \in LabeledSets(width, height) :
           grid = [o \in GridOffsets |->
                      IF IsInterior(o)
                      THEN IF <<XOf(o), YOf(o)>> \in S
                           THEN GridNode(0, OwnLabel(XOf(o), YOf(o)), 1)
                           ELSE GridNode(0, 0, 1)
                      ELSE PaddingNode]
    /\ thick_mask = {}
    /\ regions = <<>>
    /\ queue = <<>>
    /\ iteration = 0
    /\ edges = {}
    /\ left_bound = NullLine
    /\ right_bound = NullLine
    /\ InitPathVars
    /\ dbg = NullSink
    /\ InitNodeVars
    /\ InitTraceVars

NextDT == DistanceGrowth

SpecDT == InitDT /\ [][NextDT]_vars

(***************************************************************************)
(* The anisotropic squared distance of the specification: dx^2 + (3*dy)^2. *)
(***************************************************************************)
WeightedSqDist(o, p) ==
    (XOf(o) - XOf(p)) * (XOf(o) - XOf(p))
        + (3 * (YOf(o) - YOf(p))) * (3 * (YOf(o) - YOf(p)))

LabeledOffsets(g) == {o \in InteriorOffsets : ValidRegion(g[o])}

\* C1: after distanceDrivenRegionGrowth on a grid with at least one valid
\* label, every node that had label 0 carries the label of a previously
\* labeled node that minimises dx^2 + (3*dy)^2 over the previously labeled
\* nodes (any of them on ties).
C1_NearestUnderWeightedMetric ==
    [][(pc = "flood" /\ pc' = "mark" /\ LabeledOffsets(grid) # {}) =>
        \A o \in InteriorOffsets \ LabeledOffsets(grid) :
            \E p \in LabeledOffsets(grid) :
                /\ Label(grid'[o]) = Label(grid[p])
                /\ \A q \in LabeledOffsets(grid) :
                       WeightedSqDist(o, p) <= WeightedSqDist(o, q)]_vars

(***************************************************************************)
(* markEdgeRegions.                                                        *)
(***************************************************************************)
\* qRound() of the fraction num / den: the nearest integer, halves upwards.
QRound(num, den) ==
    IF den > 0 THEN (2 * num + den) \div (2 * den)
    ELSE (2 * (-num) + (-den)) \div (2 * (-den))

QBound(min, val, max) == IF val < min THEN min ELSE IF val > max THEN max ELSE val

\* hor_line.intersect(bound, &intersection) for the scanline y: FALSE for
\* QLineF::NoIntersection (the bound is horizontal or null).
Intersects(bound) == bound.p2[2] # bound.p1[2]

\* qRound(intersection.x()) when the scanline y and the bound intersect.
IntersectionX(bound, y) ==
    LET dx == bound.p2[1] - bound.p1[1]
        dy == bound.p2[2] - bound.p1[2]
    IN  QRound(bound.p1[1] * dy + (y - bound.p1[2]) * dx, dy)

\* LeftX with left_x initialized to width - 1 as right_x is.
LeftXFromLast(bound, y) ==
    IF Intersects(bound) THEN QBound(0, IntersectionX(bound, y), width - 1)
    ELSE width - 1

LeftX(bound, y) ==
    IF Intersects(bound) THEN QBound(0, IntersectionX(bound, y), width - 1) ELSE 0

\* RightX with right_x initialized to 0 as left_x is.
RightXFromZero(bound, y) ==
    IF Intersects(bound) THEN QBound(0, IntersectionX(bound, y), width - 1) ELSE 0

RightX(bound, y) ==
    IF Intersects(bound) THEN QBound(0, IntersectionX(bound, y), width - 1)
    ELSE width - 1

\* The body of the loop over the scanlines, for the scanline y.
MarkScanline(regs, g, lb, rb, y) ==
    LET left_node == g[GridOffset(LeftX(lb, y), y)]
        regs1 == IF ValidRegion(left_node)
                 THEN [regs EXCEPT ![RegionIdxOf(left_node) + 1].leftmost = TRUE]
                 ELSE regs
        right_node == g[GridOffset(RightX(rb, y), y)]
    IN  IF ValidRegion(right_node)
        THEN [regs1 EXCEPT ![RegionIdxOf(right_node) + 1].rightmost = TRUE]
        ELSE regs1

RECURSIVE MarkEdgeRegionsFrom(_, _, _, _, _)
MarkEdgeRegionsFrom(regs, g, lb, rb, y) ==
    IF y >= height THEN regs
    ELSE MarkEdgeRegionsFrom(MarkScanline(regs, g, lb, rb, y), g, lb, rb, y + 1)

MarkEdgeRegions ==
    /\ pc = "mark"
    /\ regions' = MarkEdgeRegionsFrom(regions, grid, left_bound, right_bound, 0)
    /\ pc' = "connections"
    /\ UNCHANGED <<dbg, nodeVars, calcVars, viewVars, width, height, grid, thick_mask, queue, iteration, edges,
                   left_bound, right_bound, pathVars, traceVars>>

(***************************************************************************)
(* "Process horizontal connections between regions." and "Process vertical *)
(* connections between regions."                                           *)
(***************************************************************************)
\* The body of the loops with the two mask bits joined by "or".
ConnectEitherInMask(set, g, mask1, mask2, o1, o2) ==
    IF (mask1 = 1 \/ mask2 = 1)
       /\ RegionIdxOf(g[o1]) # RegionIdxOf(g[o2])
       /\ ValidRegion(g[o1]) /\ ValidRegion(g[o2])
    THEN EdgesInsert(set, Edge(RegionIdxOf(g[o1]), RegionIdxOf(g[o2])))
    ELSE set

\* The body of both loops for the nodes at offsets o1 and o2, whose mask
\* bits are mask1 and mask2.
Connect(set, g, mask1, mask2, o1, o2) ==
    IF mask1 = 1 /\ mask2 = 1
       /\ RegionIdxOf(g[o1]) # RegionIdxOf(g[o2])
       /\ ValidRegion(g[o1]) /\ ValidRegion(g[o2])
    THEN EdgesInsert(set, Edge(RegionIdxOf(g[o1]), RegionIdxOf(g[o2])))
    ELSE set

\* for (y = 0; y < height; ++y) for (x = 1; x < width; ++x): n counts the
\* pairs <<x, y>>, <<x - 1, y>> in the order of the loops.
RECURSIVE HorizontalConnections(_, _, _)
HorizontalConnections(set, g, n) ==
    IF width < 2 \/ n >= height * (width - 1) THEN set
    ELSE LET y == n \div (width - 1)
             x == 1 + (n % (width - 1))
         IN  HorizontalConnections(
                 Connect(set, g, MaskBit(x, y), MaskBit(x - 1, y),
                         GridOffset(x, y), GridOffset(x, y) - 1),
                 g, n + 1)

\* for (x = 0; x < width; ++x) for (y = 1; y < height; ++y)
RECURSIVE VerticalConnections(_, _, _)
VerticalConnections(set, g, n) ==
    IF height < 2 \/ n >= width * (height - 1) THEN set
    ELSE LET x == n \div (height - 1)
             y == 1 + (n % (height - 1))
         IN  VerticalConnections(
                 Connect(set, g, MaskBit(x, y), MaskBit(x, y - 1),
                         GridOffset(x, y), GridOffset(x, y) - GridStride),
                 g, n + 1)

FindConnections ==
    /\ pc = "connections"
    /\ edges' = VerticalConnections(HorizontalConnections(edges, grid, 0), grid, 0)
    /\ pc' = "edge_nodes"
    /\ UNCHANGED <<dbg, nodeVars, calcVars, viewVars, width, height, grid, thick_mask, regions, queue, iteration,
                   left_bound, right_bound, pathVars, traceVars>>

(***************************************************************************)
(* segmentBlurredTextLines after labelAndGrowRegions: the edge-nodes.      *)
(* A float is modelled in fixed point: a squared cosine and the cost of a  *)
(* transition in units of 10^-7, a path cost in units of 10^-10.           *)
(***************************************************************************)
\* ~uint32_t(0), ~EdgeNodeIdx(0), ~RegionIdx(0)
NO_INDEX == -1

\* NumericTraits<float>::max(), as the largest value of the model's integers.
MAX_PATH_COST == 2147483647

EdgeNode(edg) ==
    [edge |-> edg, connectedEdges |-> <<>>, pathCost |-> MAX_PATH_COST,
     prevEdgeNodeIdx |-> NO_INDEX, leftmostRegionIdx |-> NO_INDEX,
     heapIdx |-> NO_INDEX]

EdgeConnection(idx, cost) == [edgeNodeIdx |-> idx, cost |-> cost]

\* BOOST_FOREACH(Edge const& edge, edges): the elements of the std::set in
\* the order of Edge::operator<.
RECURSIVE EdgesInOrder(_)
EdgesInOrder(set) ==
    IF set = {} THEN <<>>
    ELSE LET first == CHOOSE e \in set : \A f \in set \ {e} : EdgeLess(e, f)
         IN  <<first>> \o EdgesInOrder(set \ {first})

\* The body of "Populate ConnComp::connectedRagions and edge_nodes." for
\* the edges of the sequence from position k on.
RECURSIVE PopulateEdgeNodes(_, _, _, _)
PopulateEdgeNodes(regs, nodes, edgs, k) ==
    IF k > Len(edgs) THEN [regions |-> regs, edge_nodes |-> nodes]
    ELSE LET edge == edgs[k]
             regs1 == [regs EXCEPT ![edge.lesserRegionIdx + 1].connectedRegions =
                                       Append(@, edge.greaterRegionIdx)]
             regs2 == [regs1 EXCEPT ![edge.greaterRegionIdx + 1].connectedRegions =
                                       Append(@, edge.lesserRegionIdx)]
         IN  PopulateEdgeNodes(regs2, Append(nodes, EdgeNode(edge)), edgs, k + 1)

CreateEdgeNodes ==
    /\ pc = "edge_nodes"
    /\ DbgPassed("connectivity")
    /\ LET r == PopulateEdgeNodes(regions, edge_nodes, EdgesInOrder(edges), 1)
       IN  regions' = r.regions /\ edge_nodes' = r.edge_nodes
    /\ pc' = "connect_edges"
    /\ UNCHANGED <<dbg, nodeVars, calcVars, viewVars, width, height, grid, thick_mask, queue, iteration, edges,
                   left_bound, right_bound, path_queue, edge_node_paths,
                   traceVars>>

\* edge_to_index[edge]: the index given to the edge-node of the edge
\* (operator[] of std::map gives 0 for a key the map does not hold).
EdgeToIndex(nodes, edge) ==
    IF \E i \in 1 .. Len(nodes) :
           ~EdgeLess(nodes[i].edge, edge) /\ ~EdgeLess(edge, nodes[i].edge)
    THEN (CHOOSE i \in 1 .. Len(nodes) :
              ~EdgeLess(nodes[i].edge, edge) /\ ~EdgeLess(edge, nodes[i].edge)) - 1
    ELSE 0

\* Vec2f(a - b) of two centroids
Vec2f(a, b) == <<a[1] - b[1], a[2] - b[2]>>

Dot(v1, v2) == v1[1] * v2[1] + v1[2] * v2[2]

SquaredNorm(v) == Dot(v, v)

\* The quotient q + r / den continued by d decimal digits, rounded down.
RECURSIVE LongDiv(_, _, _, _)
LongDiv(q, r, den, d) ==
    IF d = 0 THEN q
    ELSE LongDiv(10 * q + ((10 * r) \div den), (10 * r) % den, den, d - 1)

\* num / den in units of 10^-7, for num >= 0 and den > 0
FixedDiv(num, den) == LongDiv(num \div den, num % den, den, 7)

\* float(cos(15 * DEG2RAD))^2 = 0.93301266..., in units of 10^-7
COS_SQ_THRESHOLD == 9330126

ONE == 10000000

\* cos_sq with fabs(dot) * dot in the place of fabs(dot) * -dot.
CosSqSameWay(vec1, vec2) ==
    LET dot == Dot(vec1, vec2)
        den == SquaredNorm(vec1) * SquaredNorm(vec2)
    IN  IF den = 0 THEN -ONE
        ELSE IF dot > 0 THEN FixedDiv(dot * dot, den)
        ELSE -FixedDiv(dot * dot, den)

\* cos_sq = (fabs(dot) * -dot) / (vec1.squaredNorm() * vec2.squaredNorm()).
\* Two centroids at the same point make it 0/0, which compares false.
CosSq(vec1, vec2) ==
    LET dot == Dot(vec1, vec2)
        den == SquaredNorm(vec1) * SquaredNorm(vec2)
    IN  IF den = 0 THEN -ONE
        ELSE IF dot < 0 THEN FixedDiv(dot * dot, den)
        ELSE -FixedDiv(dot * dot, den)

\* cost = std::max<float>(1.0f - cos_sq, 0)
TransitionCost(cos_sq) == IF ONE - cos_sq > 0 THEN ONE - cos_sq ELSE 0

\* The body of the loop over j, for the regions i and j of connectedRegions.
ConnectPair(regs, nodes, region_idx, i, j) ==
    LET region == regs[region_idx + 1]
        region1_idx == region.connectedRegions[i + 1]
        region2_idx == region.connectedRegions[j + 1]
        edge1_node_idx == EdgeToIndex(nodes, Edge(region_idx, region1_idx))
        edge2_node_idx == EdgeToIndex(nodes, Edge(region_idx, region2_idx))
        vec1 == Vec2f(regs[region1_idx + 1].centroid, region.centroid)
        vec2 == Vec2f(regs[region2_idx + 1].centroid, region.centroid)
        cos_sq == CosSq(vec1, vec2)
        cost == TransitionCost(cos_sq)
    IN  IF cos_sq > COS_SQ_THRESHOLD
        THEN LET nodes1 == [nodes EXCEPT ![edge1_node_idx + 1].connectedEdges =
                               Append(@, EdgeConnection(edge2_node_idx, cost))]
             IN  [nodes1 EXCEPT ![edge2_node_idx + 1].connectedEdges =
                     Append(@, EdgeConnection(edge1_node_idx, cost))]
        ELSE nodes

\* "Populate EdgeNode::connectedEdges": the three nested loops, from the
\* position region_idx, i, j on.
RECURSIVE PopulateConnectedEdges(_, _, _, _, _)
PopulateConnectedEdges(regs, nodes, region_idx, i, j) ==
    IF region_idx >= Len(regs) THEN nodes
    ELSE LET num_connected_regions == Len(regs[region_idx + 1].connectedRegions)
         IN  IF i >= num_connected_regions
             THEN PopulateConnectedEdges(regs, nodes, region_idx + 1, 0, 1)
             ELSE IF j >= num_connected_regions
             THEN PopulateConnectedEdges(regs, nodes, region_idx, i + 1, i + 2)
             ELSE PopulateConnectedEdges(
                      regs, ConnectPair(regs, nodes, region_idx, i, j),
                      region_idx, i, j + 1)

ConnectEdges ==
    /\ pc = "connect_edges"
    /\ edge_nodes' = PopulateConnectedEdges(regions, edge_nodes, 0, 0, 1)
    /\ pc' = "seed"
    /\ UNCHANGED <<dbg, nodeVars, calcVars, viewVars, width, height, grid, thick_mask, regions, queue, iteration,
                   edges, left_bound, right_bound, path_queue, edge_node_paths,
                   traceVars>>

(***************************************************************************)
(* ShortestPathQueue and the search.  s is the pair of edge_nodes and the  *)
(* queue, which holds EdgeNodeIdx values in the order of the push() calls. *)
(***************************************************************************)
\* ShortestPathQueue::higherThan
ShortestPathHigherThan(nodes, lhs, rhs) ==
    nodes[lhs + 1].pathCost < nodes[rhs + 1].pathCost

\* PriorityQueue::front() of the ShortestPathQueue: an element no other
\* element is higher than.
ShortestPathFront(nodes, q) ==
    {i \in 1 .. Len(q) :
        \A j \in 1 .. Len(q) : ~ShortestPathHigherThan(nodes, q[j], q[i])}

\* ShortestPathQueue::setIndex, as PriorityQueue calls it for every element
\* it has placed: heapIdx is the position of the element in the queue.
SetIndexes(nodes, q) ==
    [k \in 1 .. Len(nodes) |->
        IF \E p \in 1 .. Len(q) : q[p] = k - 1
        THEN [nodes[k] EXCEPT !.heapIdx = (CHOOSE p \in 1 .. Len(q) : q[p] = k - 1) - 1]
        ELSE nodes[k]]

\* queue.push(edge_node_idx)
ShortestPathPush(s, edge_node_idx) ==
    LET q == Append(s.queue, edge_node_idx)
    IN  [edge_nodes |-> SetIndexes(s.edge_nodes, q), queue |-> q]

\* queue.pop() of the element at position i
ShortestPathPop(s, i) ==
    LET q == SubSeq(s.queue, 1, i - 1) \o SubSeq(s.queue, i + 1, Len(s.queue))
    IN  [edge_nodes |-> SetIndexes(s.edge_nodes, q), queue |-> q]

\* ShortestPathQueue::reposition: the order of the push() calls stays, the
\* new cost decides the front.
ShortestPathReposition(s, edge_node_idx) == s

\* SeedFrom that looks at the lesser region of an edge only.
RECURSIVE SeedFromLesserOnly(_, _, _)
SeedFromLesserOnly(regs, s, edge_node_idx) ==
    IF edge_node_idx >= Len(s.edge_nodes) THEN s
    ELSE LET edge_node == s.edge_nodes[edge_node_idx + 1]
             region1_idx == edge_node.edge.lesserRegionIdx
         IN  IF regs[region1_idx + 1].leftmost
             THEN SeedFromLesserOnly(
                      regs,
                      ShortestPathPush(
                          [s EXCEPT !.edge_nodes[edge_node_idx + 1] =
                              [edge_node EXCEPT !.pathCost = 0,
                                                !.leftmostRegionIdx = region1_idx]],
                          edge_node_idx),
                      edge_node_idx + 1)
             ELSE SeedFromLesserOnly(regs, s, edge_node_idx + 1)

\* "Put leftmost nodes in the queue with the path cost of zero.", from the
\* edge-node edge_node_idx on.
RECURSIVE SeedFrom(_, _, _)
SeedFrom(regs, s, edge_node_idx) ==
    IF edge_node_idx >= Len(s.edge_nodes) THEN s
    ELSE LET edge_node == s.edge_nodes[edge_node_idx + 1]
             region1_idx == edge_node.edge.lesserRegionIdx
             region2_idx == edge_node.edge.greaterRegionIdx
             seeded(region_idx) ==
                 ShortestPathPush(
                     [s EXCEPT !.edge_nodes[edge_node_idx + 1] =
                         [edge_node EXCEPT !.pathCost = 0,
                                           !.leftmostRegionIdx = region_idx]],
                     edge_node_idx)
         IN  IF regs[region1_idx + 1].leftmost
             THEN SeedFrom(regs, seeded(region1_idx), edge_node_idx + 1)
             ELSE IF regs[region2_idx + 1].leftmost
             THEN SeedFrom(regs, seeded(region2_idx), edge_node_idx + 1)
             ELSE SeedFrom(regs, s, edge_node_idx + 1)

SeedQueue ==
    /\ pc = "seed"
    /\ LET s == SeedFrom(regions, [edge_nodes |-> edge_nodes, queue |-> path_queue], 0)
       IN  edge_nodes' = s.edge_nodes /\ path_queue' = s.queue
    /\ pc' = "search"
    /\ UNCHANGED <<dbg, nodeVars, calcVars, viewVars, width, height, grid, thick_mask, regions, queue, iteration,
                   edges, left_bound, right_bound, edge_node_paths, traceVars>>

Max(a, b) == IF a > b THEN a ELSE b

\* The cost of a path as its largest transition cost alone.
NewPathCostMaxOnly(path_cost, cost) == Max(path_cost, 1000 * cost)

\* The cost of a path as the cost of its last transition alone.
NewPathCostLastOnly(path_cost, cost) == 1000 * cost + cost

\* new_path_cost = std::max<float>(edge_node.pathCost, connection.cost)
\*                     + 0.001 * connection.cost
NewPathCost(path_cost, cost) == Max(path_cost, 1000 * cost) + cost

\* Relax that records the previous edge-node of an edge-node only when it
\* first reaches it.
RECURSIVE RelaxKeepPrev(_, _, _)
RelaxKeepPrev(s, edge_node_idx, k) ==
    LET edge_node == s.edge_nodes[edge_node_idx + 1]
    IN  IF k > Len(edge_node.connectedEdges) THEN s
        ELSE LET connection == edge_node.connectedEdges[k]
                 edge_node2 == s.edge_nodes[connection.edgeNodeIdx + 1]
                 new_path_cost == NewPathCost(edge_node.pathCost, connection.cost)
             IN  IF new_path_cost < edge_node2.pathCost
                 THEN LET s1 == [s EXCEPT !.edge_nodes[connection.edgeNodeIdx + 1] =
                                    [edge_node2 EXCEPT
                                        !.pathCost = new_path_cost,
                                        !.prevEdgeNodeIdx =
                                            IF @ = NO_INDEX THEN edge_node_idx ELSE @,
                                        !.leftmostRegionIdx = edge_node.leftmostRegionIdx]]
                      IN  RelaxKeepPrev(
                              IF edge_node2.heapIdx = NO_INDEX
                              THEN ShortestPathPush(s1, connection.edgeNodeIdx)
                              ELSE ShortestPathReposition(s1, connection.edgeNodeIdx),
                              edge_node_idx, k + 1)
                 ELSE RelaxKeepPrev(s, edge_node_idx, k + 1)

\* Relax that leaves the leftmost region of an edge-node as it is once it
\* has one.
RECURSIVE RelaxKeepOrigin(_, _, _)
RelaxKeepOrigin(s, edge_node_idx, k) ==
    LET edge_node == s.edge_nodes[edge_node_idx + 1]
    IN  IF k > Len(edge_node.connectedEdges) THEN s
        ELSE LET connection == edge_node.connectedEdges[k]
                 edge_node2 == s.edge_nodes[connection.edgeNodeIdx + 1]
                 new_path_cost == NewPathCost(edge_node.pathCost, connection.cost)
             IN  IF new_path_cost < edge_node2.pathCost
                 THEN LET s1 == [s EXCEPT !.edge_nodes[connection.edgeNodeIdx + 1] =
                                    [edge_node2 EXCEPT
                                        !.pathCost = new_path_cost,
                                        !.prevEdgeNodeIdx = edge_node_idx,
                                        !.leftmostRegionIdx =
                                            IF @ = NO_INDEX
                                            THEN edge_node.leftmostRegionIdx ELSE @]]
                      IN  RelaxKeepOrigin(
                              IF edge_node2.heapIdx = NO_INDEX
                              THEN ShortestPathPush(s1, connection.edgeNodeIdx)
                              ELSE ShortestPathReposition(s1, connection.edgeNodeIdx),
                              edge_node_idx, k + 1)
                 ELSE RelaxKeepOrigin(s, edge_node_idx, k + 1)

\* The body of BOOST_FOREACH(EdgeConnection const& connection, ...) for the
\* connections of edge_node_idx from position k on.
RECURSIVE Relax(_, _, _)
Relax(s, edge_node_idx, k) ==
    LET edge_node == s.edge_nodes[edge_node_idx + 1]
    IN  IF k > Len(edge_node.connectedEdges) THEN s
        ELSE LET connection == edge_node.connectedEdges[k]
                 edge_node2 == s.edge_nodes[connection.edgeNodeIdx + 1]
                 new_path_cost == NewPathCost(edge_node.pathCost, connection.cost)
             IN  IF new_path_cost < edge_node2.pathCost
                 THEN LET s1 == [s EXCEPT !.edge_nodes[connection.edgeNodeIdx + 1] =
                                    [edge_node2 EXCEPT
                                        !.pathCost = new_path_cost,
                                        !.prevEdgeNodeIdx = edge_node_idx,
                                        !.leftmostRegionIdx = edge_node.leftmostRegionIdx]]
                      IN  Relax(IF edge_node2.heapIdx = NO_INDEX
                                THEN ShortestPathPush(s1, connection.edgeNodeIdx)
                                ELSE ShortestPathReposition(s1, connection.edgeNodeIdx),
                                edge_node_idx, k + 1)
                 ELSE Relax(s, edge_node_idx, k + 1)

\* One turn of "while (!queue.empty())", the front being at position i.
SearchTurn(s, i) ==
    LET edge_node_idx == s.queue[i]
        popped == ShortestPathPop(s, i)
    IN  Relax([popped EXCEPT !.edge_nodes[edge_node_idx + 1].heapIdx = NO_INDEX],
              edge_node_idx, 1)

SearchStep ==
    /\ pc = "search"
    /\ path_queue # <<>>
    /\ \E i \in ShortestPathFront(edge_nodes, path_queue) :
           LET s == SearchTurn([edge_nodes |-> edge_nodes, queue |-> path_queue], i)
           IN  edge_nodes' = s.edge_nodes /\ path_queue' = s.queue
    /\ UNCHANGED <<dbg, nodeVars, calcVars, viewVars, pc, width, height, grid, thick_mask, regions, queue, iteration,
                   edges, left_bound, right_bound, edge_node_paths, traceVars>>

(***************************************************************************)
(* extractEdegeNodePaths.  A std::map is a function on the set of its keys *)
(* and is iterated in the order of the keys.                               *)
(***************************************************************************)
\* The rightmost region the edge-node is counted for, NO_INDEX if none.
RightmostRegionIdx(edge_node, regs) ==
    IF regs[edge_node.edge.lesserRegionIdx + 1].rightmost
    THEN edge_node.edge.lesserRegionIdx
    ELSE IF regs[edge_node.edge.greaterRegionIdx + 1].rightmost
    THEN edge_node.edge.greaterRegionIdx
    ELSE NO_INDEX

MapPut(map, key, value) ==
    [k \in DOMAIN map \cup {key} |-> IF k = key THEN value ELSE map[k]]

\* BestIncomingPaths that keeps the first edge-node found for a region.
RECURSIVE BestIncomingPathsFirst(_, _, _, _)
BestIncomingPathsFirst(nodes, regs, best, rightmost_edge_node_idx) ==
    IF rightmost_edge_node_idx >= Len(nodes) THEN best
    ELSE LET edge_node == nodes[rightmost_edge_node_idx + 1]
             rightmost_region_idx == RightmostRegionIdx(edge_node, regs)
             next == rightmost_edge_node_idx + 1
         IN  IF rightmost_region_idx = NO_INDEX
                \/ edge_node.leftmostRegionIdx = NO_INDEX
                \/ rightmost_region_idx \in DOMAIN best
             THEN BestIncomingPathsFirst(nodes, regs, best, next)
             ELSE BestIncomingPathsFirst(
                      nodes, regs,
                      MapPut(best, rightmost_region_idx, rightmost_edge_node_idx),
                      next)

\* The first loop: best_incoming_paths, from rightmost_edge_node_idx on.
RECURSIVE BestIncomingPaths(_, _, _, _)
BestIncomingPaths(nodes, regs, best, rightmost_edge_node_idx) ==
    IF rightmost_edge_node_idx >= Len(nodes) THEN best
    ELSE LET edge_node == nodes[rightmost_edge_node_idx + 1]
             rightmost_region_idx == RightmostRegionIdx(edge_node, regs)
             next == rightmost_edge_node_idx + 1
         IN  IF rightmost_region_idx = NO_INDEX
                \/ edge_node.leftmostRegionIdx = NO_INDEX
             THEN BestIncomingPaths(nodes, regs, best, next)
             ELSE IF rightmost_region_idx \notin DOMAIN best
             THEN BestIncomingPaths(
                      nodes, regs,
                      MapPut(best, rightmost_region_idx, rightmost_edge_node_idx),
                      next)
             ELSE IF edge_node.pathCost < nodes[best[rightmost_region_idx] + 1].pathCost
             THEN BestIncomingPaths(
                      nodes, regs,
                      MapPut(best, rightmost_region_idx, rightmost_edge_node_idx),
                      next)
             ELSE BestIncomingPaths(nodes, regs, best, next)

\* The keys of a std::map in the order of iteration.
RECURSIVE KeysInOrder(_)
KeysInOrder(keys) ==
    IF keys = {} THEN <<>>
    ELSE LET first == CHOOSE k \in keys : \A l \in keys : k <= l
         IN  <<first>> \o KeysInOrder(keys \ {first})

\* The second loop: best_outgoing_paths, over the entries of
\* best_incoming_paths from position k on.
RECURSIVE BestOutgoingPaths(_, _, _, _, _)
BestOutgoingPaths(nodes, incoming, keys, best, k) ==
    IF k > Len(keys) THEN best
    ELSE LET rightmost_edge_node_idx == incoming[keys[k]]
             leftmost_region_idx == nodes[rightmost_edge_node_idx + 1].leftmostRegionIdx
         IN  IF leftmost_region_idx \notin DOMAIN best
             THEN BestOutgoingPaths(
                      nodes, incoming, keys,
                      MapPut(best, leftmost_region_idx, rightmost_edge_node_idx),
                      k + 1)
             ELSE IF nodes[rightmost_edge_node_idx + 1].pathCost
                        < nodes[best[leftmost_region_idx] + 1].pathCost
             THEN BestOutgoingPaths(
                      nodes, incoming, keys,
                      MapPut(best, leftmost_region_idx, rightmost_edge_node_idx),
                      k + 1)
             ELSE BestOutgoingPaths(nodes, incoming, keys, best, k + 1)

\* The walk that goes on from the edge-node before the previous one.
RECURSIVE FollowPrevOfPrev(_, _, _, _)
FollowPrevOfPrev(nodes, path, edge_node_idx, first) ==
    IF edge_node_idx = NO_INDEX THEN path
    ELSE LET edge_node == nodes[edge_node_idx + 1]
         IN  IF edge_node.edge.lesserRegionIdx = first
                \/ edge_node.edge.greaterRegionIdx = first
             THEN Append(path, edge_node_idx)
             ELSE FollowPrevOfPrev(
                      nodes, Append(path, edge_node_idx),
                      IF edge_node.prevEdgeNodeIdx = NO_INDEX THEN NO_INDEX
                      ELSE nodes[edge_node.prevEdgeNodeIdx + 1].prevEdgeNodeIdx,
                      first)

\* "Follow by EdgeNode::prevEdgeNode from rightmost edges to leftmost ones."
\* The walk ends at an edge-node of the region first; it stops as well where
\* there is no previous edge-node to read.
RECURSIVE FollowPrev(_, _, _, _)
FollowPrev(nodes, path, edge_node_idx, first) ==
    IF edge_node_idx = NO_INDEX THEN path
    ELSE LET edge_node == nodes[edge_node_idx + 1]
         IN  IF edge_node.edge.lesserRegionIdx = first
                \/ edge_node.edge.greaterRegionIdx = first
             THEN Append(path, edge_node_idx)
             ELSE FollowPrev(nodes, Append(path, edge_node_idx),
                             edge_node.prevEdgeNodeIdx, first)

\* The third loop with a path pushed when the loop ends as well.
RECURSIVE PathsOfPushAtEnd(_, _, _, _, _)
PathsOfPushAtEnd(nodes, outgoing, keys, paths, k) ==
    IF k > Len(keys) THEN Append(paths, <<>>)
    ELSE PathsOfPushAtEnd(nodes, outgoing, keys,
                          Append(paths, FollowPrev(nodes, <<>>, outgoing[keys[k]],
                                                   keys[k])),
                          k + 1)

\* The third loop, over the entries of best_outgoing_paths from position k on.
RECURSIVE PathsOf(_, _, _, _, _)
PathsOf(nodes, outgoing, keys, paths, k) ==
    IF k > Len(keys) THEN paths
    ELSE PathsOf(nodes, outgoing, keys,
                 Append(paths, FollowPrev(nodes, <<>>, outgoing[keys[k]], keys[k])),
                 k + 1)

ExtractEdegeNodePaths(paths, nodes, regs) ==
    LET best_incoming_paths == BestIncomingPaths(nodes, regs, <<>>, 0)
        best_outgoing_paths ==
            BestOutgoingPaths(nodes, best_incoming_paths,
                              KeysInOrder(DOMAIN best_incoming_paths), <<>>, 1)
    IN  PathsOf(nodes, best_outgoing_paths,
                KeysInOrder(DOMAIN best_outgoing_paths), paths, 1)

ExtractPaths ==
    /\ pc = "search"
    /\ path_queue = <<>>
    /\ edge_node_paths' = ExtractEdegeNodePaths(edge_node_paths, edge_nodes, regions)
    /\ pc' = "polylines"
    /\ UNCHANGED <<dbg, nodeVars, calcVars, viewVars, width, height, grid, thick_mask, regions, queue, iteration,
                   edges, left_bound, right_bound, edge_nodes, path_queue,
                   traceVars>>

(***************************************************************************)
(* edgeSequencesToPolylines and findConnectingRegion.                      *)
(***************************************************************************)
FindConnectingRegion(edge1, edge2) ==
    IF edge1.lesserRegionIdx = edge2.lesserRegionIdx THEN edge1.lesserRegionIdx
    ELSE IF edge1.lesserRegionIdx = edge2.greaterRegionIdx THEN edge1.lesserRegionIdx
    ELSE IF edge1.greaterRegionIdx = edge2.lesserRegionIdx THEN edge1.greaterRegionIdx
    ELSE IF edge1.greaterRegionIdx = edge2.greaterRegionIdx THEN edge1.greaterRegionIdx
    ELSE NO_INDEX

\* The connecting regions of the consecutive edge-nodes of a path.
ConnectingRegions(edge_node_path, nodes) ==
    [k \in 1 .. Len(edge_node_path) - 1 |->
        FindConnectingRegion(nodes[edge_node_path[k] + 1].edge,
                             nodes[edge_node_path[k + 1] + 1].edge)]

\* PolylineOf that leaves out the far region of the last edge.
PolylineOfNoTail(edge_node_path, nodes, regs) ==
    IF Len(edge_node_path) = 1
    THEN LET edge == nodes[edge_node_path[1] + 1].edge
         IN  <<regs[edge.lesserRegionIdx + 1].centroid,
               regs[edge.greaterRegionIdx + 1].centroid>>
    ELSE LET connecting == ConnectingRegions(edge_node_path, nodes)
             first_edge == nodes[edge_node_path[1] + 1].edge
             head == IF first_edge.lesserRegionIdx = connecting[1]
                     THEN first_edge.greaterRegionIdx
                     ELSE first_edge.lesserRegionIdx
             region_indexes == <<head>> \o connecting
         IN  [k \in 1 .. Len(region_indexes) |-> regs[region_indexes[k] + 1].centroid]

\* The polyline of one edge-node path that is not empty.
PolylineOf(edge_node_path, nodes, regs) ==
    IF Len(edge_node_path) = 1
    THEN LET edge == nodes[edge_node_path[1] + 1].edge
         IN  <<regs[edge.lesserRegionIdx + 1].centroid,
               regs[edge.greaterRegionIdx + 1].centroid>>
    ELSE LET connecting == ConnectingRegions(edge_node_path, nodes)
             first_edge == nodes[edge_node_path[1] + 1].edge
             last_edge == nodes[edge_node_path[Len(edge_node_path)] + 1].edge
             head == IF first_edge.lesserRegionIdx = connecting[1]
                     THEN first_edge.greaterRegionIdx
                     ELSE first_edge.lesserRegionIdx
             tail == IF last_edge.lesserRegionIdx = connecting[Len(connecting)]
                     THEN last_edge.greaterRegionIdx
                     ELSE last_edge.lesserRegionIdx
             region_indexes == <<head>> \o connecting \o <<tail>>
         IN  [k \in 1 .. Len(region_indexes) |-> regs[region_indexes[k] + 1].centroid]

RECURSIVE EdgeSequencesToPolylines(_, _, _, _, _)
EdgeSequencesToPolylines(edge_node_paths_, nodes, regs, out, k) ==
    IF k > Len(edge_node_paths_) THEN out
    ELSE IF edge_node_paths_[k] = <<>>
    THEN EdgeSequencesToPolylines(edge_node_paths_, nodes, regs, out, k + 1)
    ELSE EdgeSequencesToPolylines(
             edge_node_paths_, nodes, regs,
             Append(out, PolylineOf(edge_node_paths_[k], nodes, regs)), k + 1)

ToPolylines ==
    /\ pc = "polylines"
    /\ DbgPassed("refined_graph")
    /\ polylines' = EdgeSequencesToPolylines(edge_node_paths, edge_nodes, regions,
                                             polylines, 1)
    /\ pc' = "extend"
    /\ UNCHANGED <<dbg, nodeVars, calcVars, viewVars, width, height, grid, thick_mask, regions, queue, iteration,
                   edges, left_bound, right_bound, pathVars, to_orig, curve_it,
                   output>>

(***************************************************************************)
(* SpecGrow: labelAndGrowRegions from the point where the grid holds the   *)
(* gray levels and the thick mask's complement is finalized.               *)
(***************************************************************************)
\* The thick masks of the model: one rectangular stroke, or no ink at all.
ThickMasks ==
    {{}} \cup {(x0 .. x1) \X (y0 .. y1) :
                  x0 \in 0 .. GrowWidth - 1, x1 \in 0 .. GrowWidth - 1,
                  y0 \in 0 .. GrowHeight - 1, y1 \in 0 .. GrowHeight - 1}

\* The blurred images of the model: gray level (g * (x + 2 * y)) mod
\* (MaxGray + 1), so that cells of one gray level lie next to each other.
BlurredPixel(g, x, y) == (g * (x + 2 * y)) % (MaxGray + 1)

ScanIndex(c) == c[2] * GrowWidth + c[1]

\* The region lists: up to MaxRegions centroids, all different, in the order
\* of the scan that numbers the seed blobs.
RegionLists ==
    {<<>>} \cup UNION {
        {rs \in [1 .. n -> CellsOf(GrowWidth, GrowHeight)] :
            \A i \in 1 .. n - 1 : ScanIndex(rs[i]) < ScanIndex(rs[i + 1])}
        : n \in 1 .. MaxRegions}

\* The vertical bounds of the model, as pairs <<left_bound, right_bound>>.
VertBounds ==
    {<<QLineF(<<0, 0>>, <<0, GrowHeight>>),
       QLineF(<<GrowWidth - 1, 0>>, <<GrowWidth - 1, GrowHeight>>)>>,
     <<QLineF(<<0, 0>>, <<1, 1>>), QLineF(<<GrowWidth, 0>>, <<GrowWidth - 1, 1>>)>>,
     <<NullLine, NullLine>>}

InitGrow ==
    /\ pc = "centroids"
    /\ width = GrowWidth
    /\ height = GrowHeight
    /\ thick_mask \in ThickMasks
    /\ \E g \in 0 .. MaxGray :
           grid = [o \in GridOffsets |->
                      IF IsInterior(o)
                      THEN GridNode(BlurredPixel(g, XOf(o), YOf(o)), 0,
                                    1 - MaskBit(XOf(o), YOf(o)))
                      ELSE PaddingNode]
    /\ \E rs \in RegionLists : regions = [i \in 1 .. Len(rs) |-> Region(rs[i])]
    /\ queue = <<>>
    /\ iteration = 0
    /\ edges = {}
    /\ \E vb \in VertBounds : left_bound = vb[1] /\ right_bound = vb[2]
    /\ InitPathVars
    /\ dbg = NullSink
    /\ InitNodeVars
    /\ InitTraceVars

NextGrow ==
    \/ PutCentroids
    \/ GrowStep
    \/ DistanceGrowth
    \/ MarkEdgeRegions
    \/ FindConnections
    \/ CreateEdgeNodes

SpecGrow == InitGrow /\ [][NextGrow]_vars

(***************************************************************************)
(* Properties of labelAndGrowRegions, under SpecGrow.                      *)
(***************************************************************************)
\* C2: once the flood (Phase A) and distanceDrivenRegionGrowth (Phase B)
\* have run on a grid with at least one seed region, every node of the
\* image has a label other than 0.
C2_FullLabelCoverage ==
    (pc \in {"mark", "connections", "edge_nodes", "connect_edges"}
        /\ Len(regions) >= 1)
    => \A o \in InteriorOffsets : Label(grid[o]) # 0

\* Phase B has labeled a node the flood could not reach: a node outside the
\* thick mask that is no centroid.
C2_Witness ==
    /\ pc = "mark"
    /\ Len(regions) >= 1
    /\ \E o \in InteriorOffsets :
           /\ <<XOf(o), YOf(o)>> \notin thick_mask
           /\ \A i \in 1 .. Len(regions) : regions[i].centroid # <<XOf(o), YOf(o)>>
           /\ Label(grid[o]) # 0

\* The unordered pairs of regions that own two 4-adjacent nodes of the
\* thick mask.
AdjacentRegionPairs ==
    {{RegionIdxOf(grid[GridOffset(c[1], c[2])]),
      RegionIdxOf(grid[GridOffset(d[1], d[2])])} :
        <<c, d>> \in {cd \in thick_mask \X thick_mask :
                         /\ \/ cd[1][1] = cd[2][1] + 1 /\ cd[1][2] = cd[2][2]
                            \/ cd[1][1] = cd[2][1] /\ cd[1][2] = cd[2][2] + 1
                         /\ ValidRegion(grid[GridOffset(cd[1][1], cd[1][2])])
                         /\ ValidRegion(grid[GridOffset(cd[2][1], cd[2][2])])
                         /\ Label(grid[GridOffset(cd[1][1], cd[1][2])])
                                # Label(grid[GridOffset(cd[2][1], cd[2][2])])}}

EndsOf(edge) == {edge.lesserRegionIdx, edge.greaterRegionIdx}

\* C7: Edge(a, b) and Edge(b, a) are the same canonical value; once the
\* connections are found and the edge-nodes created, the edge set holds
\* exactly one Edge, and edge_nodes exactly one edge-node, for every
\* unordered pair of distinct adjacent regions, nothing else, and no Edge
\* joins a region to itself.
C7_OneCanonicalEdgePerPair ==
    pc = "connect_edges" =>
        /\ \A e \in edges :
               /\ e.lesserRegionIdx < e.greaterRegionIdx
               /\ EndsOf(e) \in AdjacentRegionPairs
        /\ \A pr \in AdjacentRegionPairs :
               /\ Cardinality({e \in edges : EndsOf(e) = pr}) = 1
               /\ Cardinality({i \in 1 .. Len(edge_nodes) :
                                  EndsOf(edge_nodes[i].edge) = pr}) = 1
               /\ \A a \in pr : \A b \in pr : Edge(a, b) = Edge(b, a)
        /\ Len(edge_nodes) = Cardinality(AdjacentRegionPairs)

\* Two regions are found adjacent by the scan of the rows and by the scan of
\* the columns, once with the lesser region first and once with the greater.
C7_Witness ==
    /\ pc = "connect_edges"
    /\ \E c \in thick_mask : \E d \in thick_mask :
           LET a == RegionIdxOf(grid[GridOffset(c[1], c[2])])
               a_left == RegionIdxOf(grid[GridOffset(c[1] - 1, c[2])])
               b == RegionIdxOf(grid[GridOffset(d[1], d[2])])
               b_up == RegionIdxOf(grid[GridOffset(d[1], d[2] - 1)])
           IN  /\ <<c[1] - 1, c[2]>> \in thick_mask
               /\ <<d[1], d[2] - 1>> \in thick_mask
               /\ a # a_left
               /\ {a, a_left} = {b, b_up}
               /\ a = b_up
               /\ Cardinality(edges) = 1
               /\ Len(edge_nodes) = 1

(***************************************************************************)
(* SpecPath: segmentBlurredTextLines from the point where                  *)
(* labelAndGrowRegions has returned.  The regions are eight seed blobs of  *)
(* a page of 38 x 12 pixels, given by their centroids in the order of the  *)
(* scan; three of them are marked leftmost and three rightmost, the last   *)
(* of which reaches the right bound from a seed near the left one.         *)
(* The thick mask joins up to PathMaxEdges of the pairs of                 *)
(* PathCandidateEdges.                                                     *)
(***************************************************************************)
PathCentroids ==
    <<<<4, 0>>, <<37, 1>>, <<27, 2>>, <<10, 7>>, <<0, 8>>, <<37, 8>>, <<4, 10>>,
      <<1, 11>>>>

PathLeftmost == {0, 4, 6}

PathRightmost == {1, 5, 7}

PathCandidateEdges ==
    <<<<4, 3>>, <<3, 2>>, <<2, 1>>, <<0, 2>>, <<6, 2>>, <<4, 1>>, <<6, 5>>, <<4, 5>>,
      <<1, 5>>, <<3, 7>>, <<0, 1>>>>

\* The k-th numbering of the regions: the number given to the blob i.
\* 0 is the order of the scan, 1 its reverse, the others are rotations.
Renumber(k, i) ==
    IF k = 0 THEN i
    ELSE IF k = 1 THEN Len(PathCentroids) - 1 - i
    ELSE (i + k - 1) % Len(PathCentroids)

\* The blob that has the number region_idx in the k-th numbering.
BlobOf(k, region_idx) ==
    CHOOSE i \in 0 .. Len(PathCentroids) - 1 : Renumber(k, i) = region_idx

PathRegions(k) ==
    [j \in 1 .. Len(PathCentroids) |->
        [Region(PathCentroids[BlobOf(k, j - 1) + 1]) EXCEPT
            !.leftmost = BlobOf(k, j - 1) \in PathLeftmost,
            !.rightmost = BlobOf(k, j - 1) \in PathRightmost]]

PathEdges(k, S) ==
    {Edge(Renumber(k, PathCandidateEdges[e][1]), Renumber(k, PathCandidateEdges[e][2])) :
        e \in S}

InitPath ==
    /\ pc = "edge_nodes"
    /\ width = 0
    /\ height = 0
    /\ grid = <<>>
    /\ thick_mask = {}
    /\ queue = <<>>
    /\ iteration = 0
    /\ left_bound = QLineF(<<0, 0>>, <<0, 12>>)
    /\ right_bound = QLineF(<<37, 0>>, <<37, 12>>)
    /\ \E k \in 0 .. PathRenumberings - 1 :
       \E S \in SUBSET (1 .. PathEdgePairs) :
           /\ Cardinality(S) <= PathMaxEdges
           /\ regions = PathRegions(k)
           /\ edges = PathEdges(k, S)
    /\ InitPathVars
    /\ dbg = NullSink
    /\ InitNodeVars
    /\ InitTraceVars

NextPath ==
    \/ CreateEdgeNodes
    \/ ConnectEdges
    \/ SeedQueue
    \/ SearchStep
    \/ ExtractPaths
    \/ ToPolylines

SpecPath == InitPath /\ [][NextPath]_vars

(***************************************************************************)
(* Properties of the path search and of extractEdegeNodePaths, under       *)
(* SpecPath.  They are stated once the search has ended and the paths are  *)
(* extracted (pc = "polylines").                                           *)
(***************************************************************************)
EdgeNodeIdxs == 0 .. Len(edge_nodes) - 1

PathCostOf(n) == edge_nodes[n + 1].pathCost

OriginOf(n) == edge_nodes[n + 1].leftmostRegionIdx

\* The edge-nodes of a leftmost region: the seeds of the search.
IsSeed(n) ==
    \/ regions[edge_nodes[n + 1].edge.lesserRegionIdx + 1].leftmost
    \/ regions[edge_nodes[n + 1].edge.greaterRegionIdx + 1].leftmost

\* The costs of the transitions from the edge-node m to the edge-node n.
TransitionCosts(m, n) ==
    {edge_nodes[m + 1].connectedEdges[k].cost :
        k \in {j \in 1 .. Len(edge_nodes[m + 1].connectedEdges) :
                  edge_nodes[m + 1].connectedEdges[j].edgeNodeIdx = n}}

SetMin(S) == CHOOSE x \in S : \A y \in S : x <= y

\* cost := max(cost, t) + 0.001 * t, in units of 10^-10 (t in 10^-7)
RuleStep(cost, t) == (IF cost > 1000 * t THEN cost ELSE 1000 * t) + t

\* cost := max(cost, t), in units of 10^-7
BottleneckStep(cost, t) == IF cost > t THEN cost ELSE t

\* The cost the table D, a set of pairs <<edge-node, cost>>, has for n.
CostIn(D, n) == (CHOOSE p \in D : p[1] = n)[2]

\* The pairs <<m, t>>: a transition of cost t leads from m, which D has a
\* cost for, to n.
TransitionsTo(D, n) ==
    UNION {{<<m, t>> : t \in TransitionCosts(m, n)} :
              m \in {m2 \in EdgeNodeIdxs : CostIn(D, m2) # MAX_PATH_COST}}

\* The least cost of a sequence of at most k transitions from a seed to
\* each edge-node, under the rule cost := max(cost, t) + 0.001 * t
\* (MAX_PATH_COST where there is no such sequence).
RECURSIVE LeastRuleCost(_)
LeastRuleCost(k) ==
    IF k = 0
    THEN {<<n, IF IsSeed(n) THEN 0 ELSE MAX_PATH_COST>> : n \in EdgeNodeIdxs}
    ELSE LET D == LeastRuleCost(k - 1)
         IN  {<<n, SetMin({CostIn(D, n)} \cup
                          {RuleStep(CostIn(D, mt[1]), mt[2]) :
                              mt \in TransitionsTo(D, n)})>> : n \in EdgeNodeIdxs}

\* The same for the largest transition cost of the sequence.
RECURSIVE LeastBottleneck(_)
LeastBottleneck(k) ==
    IF k = 0
    THEN {<<n, IF IsSeed(n) THEN 0 ELSE MAX_PATH_COST>> : n \in EdgeNodeIdxs}
    ELSE LET D == LeastBottleneck(k - 1)
         IN  {<<n, SetMin({CostIn(D, n)} \cup
                          {BottleneckStep(CostIn(D, mt[1]), mt[2]) :
                              mt \in TransitionsTo(D, n)})>> : n \in EdgeNodeIdxs}

\* The least costs over the sequences of any length: a sequence that visits
\* no edge-node twice has fewer transitions than there are edge-nodes.
LeastRuleCostOf(n) == CostIn(LeastRuleCost(Len(edge_nodes)), n)

LeastBottleneckOf(n) == CostIn(LeastBottleneck(Len(edge_nodes)), n)

\* The largest transition cost on the recorded path of the edge-node n: the
\* path that prevEdgeNodeIdx leads back along.
RECURSIVE RecordedBottleneck(_)
RecordedBottleneck(n) ==
    IF edge_nodes[n + 1].prevEdgeNodeIdx = NO_INDEX THEN 0
    ELSE BottleneckStep(
             RecordedBottleneck(edge_nodes[n + 1].prevEdgeNodeIdx),
             SetMin(TransitionCosts(edge_nodes[n + 1].prevEdgeNodeIdx, n)))

Reached == {n \in EdgeNodeIdxs : OriginOf(n) # NO_INDEX}

\* C3 as stated: for every edge-node the search has reached, the recorded
\* path has the smallest possible maximum transition cost among all paths
\* from a leftmost-touching edge-node to it.
C3_RecordedPathIsMinimax ==
    pc = "polylines" =>
        \A n \in Reached :
            RecordedBottleneck(n) = LeastBottleneckOf(n)

\* C3 amended: for every edge-node the search has reached, the maximum
\* transition cost of the recorded path is at most the least cost, under
\* the rule cost := max(cost, t) + 0.001 * t, of any path from a
\* leftmost-touching edge-node to it; so it exceeds the smallest possible
\* maximum transition cost by at most 0.1% for each transition a path may
\* have.
C3_RecordedPathWithinRuleCost ==
    pc = "polylines" =>
        \A n \in Reached :
            /\ 1000 * RecordedBottleneck(n) <= LeastRuleCostOf(n)
            /\ 1000 * RecordedBottleneck(n)
                   <= (1000 + Len(edge_nodes)) * LeastBottleneckOf(n)

\* The recorded path of a reached edge-node is not a minimax path.
C3_Witness ==
    /\ pc = "polylines"
    /\ \E n \in Reached :
           RecordedBottleneck(n) > LeastBottleneckOf(n)

\* C4: when the search has ended, the path cost of every edge-node is the
\* least value, over all sequences of transitions from any seed, of the cost
\* obtained from 0 by cost := max(cost, t) + 0.001 * t; a seed has cost 0
\* and a leftmost region of its own as origin; an edge-node no sequence
\* reaches keeps the cost +infinity and has no origin.
C4_PathCostIsLeastRuleCost ==
    pc = "polylines" =>
        \A n \in EdgeNodeIdxs :
            /\ PathCostOf(n) = LeastRuleCostOf(n)
            /\ IsSeed(n) =>
                   /\ PathCostOf(n) = 0
                   /\ OriginOf(n) \in EndsOf(edge_nodes[n + 1].edge)
                   /\ regions[OriginOf(n) + 1].leftmost
            /\ LeastRuleCostOf(n) = MAX_PATH_COST =>
                   /\ PathCostOf(n) = MAX_PATH_COST
                   /\ OriginOf(n) = NO_INDEX

\* An edge-node two sequences of different cost lead to, and an edge-node
\* none leads to.
C4_Witness ==
    /\ pc = "polylines"
    /\ \E n \in Reached :
           /\ ~IsSeed(n)
           /\ \E m1 \in Reached : \E m2 \in Reached :
                  /\ TransitionCosts(m1, n) # {}
                  /\ TransitionCosts(m2, n) # {}
                  /\ RuleStep(PathCostOf(m1), SetMin(TransitionCosts(m1, n)))
                         < RuleStep(PathCostOf(m2), SetMin(TransitionCosts(m2, n)))
    /\ \E n \in EdgeNodeIdxs : n \notin Reached

\* The reached edge-nodes that touch a rightmost region.
ReachedRightmost ==
    {n \in Reached :
        \E r \in EndsOf(edge_nodes[n + 1].edge) : regions[r + 1].rightmost}

\* The terminal of an extracted path: the edge-node the walk starts at.
Terminals == {edge_node_paths[k][1] : k \in 1 .. Len(edge_node_paths)}

\* C5 as stated: exactly one output path per distinct leftmost origin L that
\* reaches some rightmost-touching edge-node, its terminal being of minimum
\* cost among all reached rightmost-touching edge-nodes of origin L.
C5_OnePathPerReachingOrigin ==
    pc = "polylines" =>
        /\ Len(edge_node_paths) = Cardinality({OriginOf(n) : n \in ReachedRightmost})
        /\ \A n \in ReachedRightmost :
               /\ Cardinality({k \in 1 .. Len(edge_node_paths) :
                                  OriginOf(edge_node_paths[k][1]) = OriginOf(n)}) = 1
               /\ \E t \in Terminals :
                      /\ t \in ReachedRightmost
                      /\ OriginOf(t) = OriginOf(n)
                      /\ PathCostOf(t) <= PathCostOf(n)

\* The rightmost region an edge-node is counted for: its lesser region if
\* that is rightmost, else its greater region.
CountedFor(n) ==
    IF regions[edge_nodes[n + 1].edge.lesserRegionIdx + 1].rightmost
    THEN edge_nodes[n + 1].edge.lesserRegionIdx
    ELSE edge_nodes[n + 1].edge.greaterRegionIdx

\* The winners of the rightmost regions: for each, the reached edge-node of
\* least cost counted for it, the one of lowest index among equals.
RegionWinners ==
    {n \in ReachedRightmost :
        \A m \in ReachedRightmost :
            (CountedFor(m) = CountedFor(n) /\ m # n) =>
                \/ PathCostOf(n) < PathCostOf(m)
                \/ PathCostOf(n) = PathCostOf(m) /\ n < m}

\* C5 amended: exactly one output path per distinct leftmost origin L
\* recorded on the winner of some rightmost region, its terminal being of
\* minimum cost among the winners of origin L; an origin whose reached
\* rightmost-touching edge-nodes all lose their rightmost region gets none.
C5_OnePathPerWinningOrigin ==
    pc = "polylines" =>
        /\ Len(edge_node_paths) = Cardinality({OriginOf(n) : n \in RegionWinners})
        /\ Terminals \subseteq RegionWinners
        /\ \A n \in RegionWinners :
               /\ Cardinality({k \in 1 .. Len(edge_node_paths) :
                                  OriginOf(edge_node_paths[k][1]) = OriginOf(n)}) = 1
               /\ \E t \in Terminals :
                      /\ OriginOf(t) = OriginOf(n)
                      /\ PathCostOf(t) <= PathCostOf(n)

\* Two paths are extracted, and an origin that reaches a rightmost-touching
\* edge-node gets none.
C5_Witness ==
    /\ pc = "polylines"
    /\ Len(edge_node_paths) >= 2
    /\ \E n \in ReachedRightmost : \A t \in Terminals : OriginOf(t) # OriginOf(n)

(***************************************************************************)
(* The search on the same graph with the regions numbered in the order of  *)
(* the scan, the front of the queue being the first of the candidates.     *)
(***************************************************************************)
RECURSIVE SearchAll(_)
SearchAll(s) ==
    IF s.queue = <<>> THEN s
    ELSE SearchAll(SearchTurn(
             s, CHOOSE i \in ShortestPathFront(s.edge_nodes, s.queue) :
                    \A j \in ShortestPathFront(s.edge_nodes, s.queue) : i <= j))

Solve(regs, edgs) ==
    LET r == PopulateEdgeNodes(regs, <<>>, EdgesInOrder(edgs), 1)
        nodes == PopulateConnectedEdges(r.regions, r.edge_nodes, 0, 0, 1)
        s == SearchAll(SeedFrom(r.regions, [edge_nodes |-> nodes, queue |-> <<>>], 0))
    IN  [regions |-> r.regions, edge_nodes |-> s.edge_nodes,
         edge_node_paths |-> ExtractEdegeNodePaths(<<>>, s.edge_nodes, r.regions)]

\* The number of the region in the order of the scan.
ScanNumber(region_idx) ==
    CHOOSE i \in 0 .. Len(PathCentroids) - 1 :
        PathCentroids[i + 1] = regions[region_idx + 1].centroid

InScanOrder ==
    Solve(PathRegions(0),
          {Edge(ScanNumber(e.lesserRegionIdx), ScanNumber(e.greaterRegionIdx)) :
              e \in edges})

\* The result of the solver: for every extracted path the centroid of its
\* leftmost origin, the centroid of the rightmost region of its terminal and
\* its cost.
WinningPairs(regs, nodes, paths) ==
    {<<regs[nodes[paths[k][1] + 1].leftmostRegionIdx + 1].centroid,
       regs[RightmostRegionIdx(nodes[paths[k][1] + 1], regs) + 1].centroid,
       nodes[paths[k][1] + 1].pathCost>> : k \in 1 .. Len(paths)}

\* The path cost of every edge, the edge given by its two centroids.
CostOfEdges(regs, nodes) ==
    {<<{regs[nodes[i].edge.lesserRegionIdx + 1].centroid,
        regs[nodes[i].edge.greaterRegionIdx + 1].centroid},
       nodes[i].pathCost>> : i \in 1 .. Len(nodes)}

\* C8 as stated: the result of the solver, the cost of every winning
\* (leftmost, rightmost) pair, is the same under any numbering of the
\* regions and edges and any order in which the search takes up
\* edge-nodes of equal cost.
C8_SameWinningPairs ==
    pc = "polylines" =>
        WinningPairs(regions, edge_nodes, edge_node_paths)
            = WinningPairs(InScanOrder.regions, InScanOrder.edge_nodes,
                           InScanOrder.edge_node_paths)

\* C8 amended: the path cost the search records on every edge is the same
\* under any numbering of the regions and edges and any order in which the
\* search takes up edge-nodes of equal cost; the winning pairs may differ,
\* since equal costs and edges joining two leftmost or two rightmost
\* regions are resolved by index.
C8_SamePathCosts ==
    pc = "polylines" =>
        CostOfEdges(regions, edge_nodes)
            = CostOfEdges(InScanOrder.regions, InScanOrder.edge_nodes)

\* Under another numbering the search has reached an edge-node that is no
\* seed, and other pairs win.
C8_Witness ==
    /\ pc = "polylines"
    /\ regions # PathRegions(0)
    /\ \E n \in Reached : ~IsSeed(n)
    /\ WinningPairs(regions, edge_nodes, edge_node_paths)
           # WinningPairs(InScanOrder.regions, InScanOrder.edge_nodes,
                          InScanOrder.edge_node_paths)

(***************************************************************************)
(* trace() after segmentBlurredTextLines: the extension of the polylines,  *)
(* the two filters, the refinement and the output.                         *)
(***************************************************************************)
\* What a TowardsLineTracer adds to one end of a polyline, as steps from the
\* end point: nothing, or one point.
TracedSteps == {<<>>, <<<<1, 0>>>>}

\* polyline.push_front(*pt) for the traced steps, away from the polyline
RECURSIVE ExtendHead(_, _)
ExtendHead(polyline, steps) ==
    IF steps = <<>> THEN polyline
    ELSE ExtendHead(<<<<polyline[1][1] - steps[1][1], polyline[1][2] - steps[1][2]>>>>
                        \o polyline,
                    Tail(steps))

\* polyline.push_back(*pt) for the traced steps
RECURSIVE ExtendTail(_, _)
ExtendTail(polyline, steps) ==
    IF steps = <<>> THEN polyline
    ELSE ExtendTail(Append(polyline,
                           <<polyline[Len(polyline)][1] + steps[1][1],
                             polyline[Len(polyline)][2] + steps[1][2]>>),
                    Tail(steps))

\* extendTowardsVerticalBounds: head and tail are the points the two tracers
\* return.  Which bound a tracer heads for changes its points only.
ExtendTowardsVerticalBounds(polyline, head, tail) ==
    IF polyline = <<>> THEN polyline
    ELSE ExtendTail(ExtendHead(polyline, head), tail)

\* "Extend polylines."
ExtendPolylines ==
    /\ pc = "extend"
    /\ \E traced \in [1 .. Len(polylines) -> TracedSteps \X TracedSteps] :
           polylines' = [i \in 1 .. Len(polylines) |->
                            ExtendTowardsVerticalBounds(polylines[i], traced[i][1],
                                                        traced[i][2])]
    /\ pc' = "filter_bounds"
    /\ UNCHANGED <<dbg, nodeVars, calcVars, viewVars, width, height, grid, thick_mask, regions, queue, iteration,
                   edges, left_bound, right_bound, pathVars, to_orig, curve_it,
                   output>>

\* QLineF::normalVector().p2() - p1(): the vector <<dy, -dx>>
NormalVector(line) ==
    <<line.p2[2] - line.p1[2], -(line.p2[1] - line.p1[1])>>

IsInsideBounds(pt, lb, rb) ==
    LET left_normal == NormalVector(lb)
        left_normal_inside ==
            IF left_normal[1] < 0 THEN <<-left_normal[1], -left_normal[2]>>
            ELSE left_normal
        left_vec == <<pt[1] - lb.p1[1], pt[2] - lb.p1[2]>>
        right_normal == NormalVector(rb)
        right_normal_inside ==
            IF right_normal[1] > 0 THEN <<-right_normal[1], -right_normal[2]>>
            ELSE right_normal
        right_vec == <<pt[1] - rb.p1[1], pt[2] - rb.p1[2]>>
    IN  IF left_normal_inside[1] * left_vec[1] + left_normal_inside[2] * left_vec[2] < 0
        THEN FALSE
        ELSE IF right_normal_inside[1] * right_vec[1]
                    + right_normal_inside[2] * right_vec[2] < 0
        THEN FALSE
        ELSE TRUE

\* filterOutOfBoundsCurves with "||" in the place of "&&".
RECURSIVE FilterOutOfBoundsCurvesEither(_, _, _)
FilterOutOfBoundsCurvesEither(list, lb, rb) ==
    IF list = <<>> THEN <<>>
    ELSE IF ~IsInsideBounds(Head(list)[1], lb, rb)
            \/ ~IsInsideBounds(Head(list)[Len(Head(list))], lb, rb)
    THEN FilterOutOfBoundsCurvesEither(Tail(list), lb, rb)
    ELSE <<Head(list)>> \o FilterOutOfBoundsCurvesEither(Tail(list), lb, rb)

RECURSIVE FilterOutOfBoundsCurves(_, _, _)
FilterOutOfBoundsCurves(list, lb, rb) ==
    IF list = <<>> THEN <<>>
    ELSE IF ~IsInsideBounds(Head(list)[1], lb, rb)
            /\ ~IsInsideBounds(Head(list)[Len(Head(list))], lb, rb)
    THEN FilterOutOfBoundsCurves(Tail(list), lb, rb)
    ELSE <<Head(list)>> \o FilterOutOfBoundsCurves(Tail(list), lb, rb)

FilterOutOfBounds ==
    /\ pc = "filter_bounds"
    /\ DbgPassed("extended")
    /\ polylines' = FilterOutOfBoundsCurves(polylines, left_bound, right_bound)
    /\ pc' = "refine"
    /\ UNCHANGED <<dbg, nodeVars, calcVars, viewVars, width, height, grid, thick_mask, regions, queue, iteration,
                   edges, left_bound, right_bound, pathVars, to_orig, curve_it,
                   output>>

\* What TextLineRefiner::refine may leave in the place of a polyline: the
\* polyline itself, no point, its first point alone, or the polyline with one
\* more point off its last segment, on either side.
Refinements(polyline) ==
    {polyline, <<>>, <<polyline[1]>>,
     Append(polyline, <<polyline[Len(polyline)][1] + 1, polyline[Len(polyline)][2] + 1>>),
     Append(polyline, <<polyline[Len(polyline)][1] + 1, polyline[Len(polyline)][2] - 1>>)}

\* refiner.refine(polylines, ...)
Refine ==
    /\ pc = "refine"
    /\ \E refined \in [1 .. Len(polylines) -> UNION {Refinements(polylines[i]) :
                                                      i \in 1 .. Len(polylines)}] :
           /\ \A i \in 1 .. Len(polylines) : refined[i] \in Refinements(polylines[i])
           /\ polylines' = refined
    /\ pc' = "filter_edgy"
    /\ UNCHANGED <<dbg, nodeVars, calcVars, viewVars, width, height, grid, thick_mask, regions, queue, iteration,
                   edges, left_bound, right_bound, pathVars, to_orig, curve_it,
                   output>>

\* float(cos((90 - 6) * DEG2RAD))^2 = 0.0109262..., in units of 10^-7
CURVATURE_COS_SQ_THRESHOLD == 109262

\* cos_sq = fabs(dot) * dot / sqlen_mult, 0 unless sqlen_mult > epsilon
CurvatureCosSq(prev_normal, prev_normal_sqlen, next_segment) ==
    LET sqlen_mult == prev_normal_sqlen * SquaredNorm(next_segment)
        dot == Dot(prev_normal, next_segment)
    IN  IF sqlen_mult > 0
        THEN IF dot >= 0 THEN FixedDiv(dot * dot, sqlen_mult)
             ELSE -FixedDiv(dot * dot, sqlen_mult)
        ELSE 0

\* The loop "for (size_t i = 1; i < num_nodes - 1; ++i)" from i on; c holds
\* prev_normal, prev_normal_sqlen and the two flags.
RECURSIVE CurvatureLoop(_, _, _)
CurvatureLoop(polyline, c, i) ==
    IF i >= Len(polyline) - 1 THEN c
    ELSE LET next_segment == Vec2f(polyline[i + 2], polyline[i + 1])
             cos_sq == CurvatureCosSq(c.prev_normal, c.prev_normal_sqlen, next_segment)
             significant ==
                 (IF cos_sq < 0 THEN -cos_sq ELSE cos_sq) >= CURVATURE_COS_SQ_THRESHOLD
         IN  CurvatureLoop(
                 polyline,
                 [prev_normal |-> <<-next_segment[2], next_segment[1]>>,
                  prev_normal_sqlen |-> SquaredNorm(next_segment),
                  significant_positive |->
                      c.significant_positive \/ (significant /\ cos_sq > 0),
                  significant_negative |->
                      c.significant_negative \/ (significant /\ ~(cos_sq > 0))],
                 i + 1)

\* isCurvatureConsistent with significant_negative tested twice in the place
\* of significant_positive.
IsCurvatureConsistentNegative(polyline) ==
    IF Len(polyline) <= 1 THEN FALSE
    ELSE IF Len(polyline) = 2 THEN TRUE
    ELSE LET first_segment == Vec2f(polyline[2], polyline[1])
             prev_normal == <<-first_segment[2], first_segment[1]>>
             c == CurvatureLoop(
                      polyline,
                      [prev_normal |-> prev_normal,
                       prev_normal_sqlen |-> SquaredNorm(prev_normal),
                       significant_positive |-> FALSE,
                       significant_negative |-> FALSE], 1)
         IN  ~(c.significant_negative /\ c.significant_negative)

\* isCurvatureConsistent with both flags tested, as its comment has it.
IsCurvatureConsistentBothSigns(polyline) ==
    IF Len(polyline) <= 1 THEN FALSE
    ELSE IF Len(polyline) = 2 THEN TRUE
    ELSE LET first_segment == Vec2f(polyline[2], polyline[1])
             prev_normal == <<-first_segment[2], first_segment[1]>>
             c == CurvatureLoop(
                      polyline,
                      [prev_normal |-> prev_normal,
                       prev_normal_sqlen |-> SquaredNorm(prev_normal),
                       significant_positive |-> FALSE,
                       significant_negative |-> FALSE], 1)
         IN  ~(c.significant_positive /\ c.significant_negative)

\* isCurvatureConsistent that rejects a polyline of two points as well.
IsCurvatureConsistentOverTwo(polyline) ==
    IF Len(polyline) <= 2 THEN FALSE
    ELSE LET first_segment == Vec2f(polyline[2], polyline[1])
             prev_normal == <<-first_segment[2], first_segment[1]>>
             c == CurvatureLoop(
                      polyline,
                      [prev_normal |-> prev_normal,
                       prev_normal_sqlen |-> SquaredNorm(prev_normal),
                       significant_positive |-> FALSE,
                       significant_negative |-> FALSE], 1)
         IN  ~(c.significant_positive /\ c.significant_positive)

IsCurvatureConsistent(polyline) ==
    IF Len(polyline) <= 1 THEN FALSE
    ELSE IF Len(polyline) = 2 THEN TRUE
    ELSE LET first_segment == Vec2f(polyline[2], polyline[1])
             prev_normal == <<-first_segment[2], first_segment[1]>>
             c == CurvatureLoop(
                      polyline,
                      [prev_normal |-> prev_normal,
                       prev_normal_sqlen |-> SquaredNorm(prev_normal),
                       significant_positive |-> FALSE,
                       significant_negative |-> FALSE], 1)
         IN  ~(c.significant_positive /\ c.significant_positive)

RECURSIVE FilterEdgyCurves(_)
FilterEdgyCurves(list) ==
    IF list = <<>> THEN <<>>
    ELSE IF ~IsCurvatureConsistent(Head(list))
    THEN FilterEdgyCurves(Tail(list))
    ELSE <<Head(list)>> \o FilterEdgyCurves(Tail(list))

FilterEdgy ==
    /\ pc = "filter_edgy"
    /\ polylines' = FilterEdgyCurves(polylines)
    /\ pc' = "output_bounds"
    /\ UNCHANGED <<dbg, nodeVars, calcVars, viewVars, width, height, grid, thick_mask, regions, queue, iteration,
                   edges, left_bound, right_bound, pathVars, to_orig, curve_it,
                   output>>

(***************************************************************************)
(* "Transform back to original coordinates and output."                    *)
(***************************************************************************)
\* to_orig.map of a point and of a line: to_orig scales both axes.
MapPoint(pt) == <<to_orig * pt[1], to_orig * pt[2]>>

MapLine(line) == QLineF(MapPoint(line.p1), MapPoint(line.p2))

\* The calls on the DistortionModelBuilder.
SetVerticalBoundsCall(bound1, bound2) ==
    [call |-> "setVerticalBounds", bounds |-> <<bound1, bound2>>]

AddHorizontalCurveCall(polyline) ==
    [call |-> "addHorizontalCurve", polyline |-> polyline]

\* The output step without the call of setVerticalBounds.
NoVerticalBounds ==
    /\ pc = "output_bounds"
    /\ DbgPassed("edgy_curves_removed")
    /\ left_bound' = MapLine(left_bound)
    /\ right_bound' = MapLine(right_bound)
    /\ pc' = "output_curves"
    /\ UNCHANGED <<dbg, nodeVars, calcVars, viewVars, width, height, grid, thick_mask, regions, queue, iteration,
                   edges, pathVars, polylines, to_orig, curve_it, output>>

SetVerticalBounds ==
    /\ pc = "output_bounds"
    /\ DbgPassed("edgy_curves_removed")
    /\ left_bound' = MapLine(left_bound)
    /\ right_bound' = MapLine(right_bound)
    /\ output' = Append(output, SetVerticalBoundsCall(left_bound', right_bound'))
    /\ pc' = "output_curves"
    /\ UNCHANGED <<dbg, nodeVars, calcVars, viewVars, width, height, grid, thick_mask, regions, queue, iteration,
                   edges, pathVars, polylines, to_orig, curve_it>>

\* One turn of the loop BOOST_FOREACH(std::vector<QPointF>& polyline, polylines).
AddHorizontalCurve ==
    /\ pc = "output_curves"
    /\ curve_it < Len(polylines)
    /\ polylines' = [polylines EXCEPT ![curve_it + 1] =
                        [k \in 1 .. Len(@) |-> MapPoint(@[k])]]
    /\ output' = Append(output, AddHorizontalCurveCall(polylines'[curve_it + 1]))
    /\ curve_it' = curve_it + 1
    /\ UNCHANGED <<dbg, nodeVars, calcVars, viewVars, pc, width, height, grid, thick_mask, regions, queue, iteration,
                   edges, left_bound, right_bound, pathVars, to_orig>>

\* The loop has come to the end of the list: trace() returns.
TraceReturn ==
    /\ pc = "output_curves"
    /\ curve_it >= Len(polylines)
    /\ pc' = "done"
    /\ UNCHANGED <<dbg, nodeVars, calcVars, viewVars, width, height, grid, thick_mask, regions, queue, iteration,
                   edges, left_bound, right_bound, pathVars, traceVars>>

(***************************************************************************)
(* SpecTrace: trace() from the point where segmentBlurredTextLines has     *)
(* returned up to TraceMaxPolylines polylines, each one of TraceCurves.    *)
(***************************************************************************)
TraceCurves ==
    <<<<<<3, 1>>, <<7, 1>>>>,
      <<<<1, 2>>, <<5, 2>>>>,
      <<<<0, 3>>, <<10, 3>>>>,
      <<<<3, 5>>, <<5, 5>>, <<7, 6>>>>,
      <<<<0, 4>>, <<1, 4>>>>>>

\* The lists of polylines: the curves of a list in the order of TraceCurves.
TracePolylineLists ==
    UNION {{[i \in 1 .. n |-> TraceCurves[ix[i]]] :
               ix \in {jx \in [1 .. n -> 1 .. TraceCurveCount] :
                          \A i \in 1 .. n - 1 : jx[i] <= jx[i + 1]}} :
              n \in 0 .. TraceMaxPolylines}

\* The vertical bounds detectVertContentBounds may return: two vertical
\* lines, two slanted lines, or no lines.
TraceVertBounds ==
    {<<QLineF(<<2, 0>>, <<2, 6>>), QLineF(<<8, 0>>, <<8, 6>>)>>,
     <<QLineF(<<3, 6>>, <<2, 0>>), QLineF(<<8, 6>>, <<9, 0>>)>>,
     <<NullLine, NullLine>>}

InitTrace ==
    /\ pc = "extend"
    /\ width = 0
    /\ height = 0
    /\ grid = <<>>
    /\ thick_mask = {}
    /\ regions = <<>>
    /\ queue = <<>>
    /\ iteration = 0
    /\ edges = {}
    /\ \E vb \in TraceVertBounds : left_bound = vb[1] /\ right_bound = vb[2]
    /\ InitPathVars
    /\ dbg = NullSink
    /\ InitNodeVars
    /\ polylines \in TracePolylineLists
    /\ to_orig \in 1 .. TraceMaxScale
    /\ curve_it = 0
    /\ output = <<>>

NextTrace ==
    \/ ExtendPolylines
    \/ FilterOutOfBounds
    \/ Refine
    \/ FilterEdgy
    \/ SetVerticalBounds
    \/ AddHorizontalCurve
    \/ TraceReturn

SpecTrace == InitTrace /\ [][NextTrace]_vars

(***************************************************************************)
(* Properties of the filters and of the output, under SpecTrace.           *)
(***************************************************************************)
OutputPhase == {"output_curves", "done"}

CallsOf(name) == {i \in 1 .. Len(output) : output[i].call = name}

\* While the calls are made, the list keeps its length and its polylines,
\* but for the polyline being output, which is mapped to the original
\* coordinates.
OutputKeepsList ==
    pc \in {"output_bounds", "output_curves"} =>
        /\ Len(polylines') = Len(polylines)
        /\ \A i \in 1 .. Len(polylines) :
               \/ polylines'[i] = polylines[i]
               \/ /\ i = curve_it + 1
                  /\ curve_it' = i
                  /\ polylines'[i] = [k \in 1 .. Len(polylines[i]) |->
                                         <<to_orig * polylines[i][k][1],
                                           to_orig * polylines[i][k][2]>>]

\* C6: in one run of trace, setVerticalBounds is called on the output exactly
\* once and before any addHorizontalCurve, and addHorizontalCurve is called
\* exactly once for each polyline that survived the bounds filter and the
\* curvature filter, in the order of the list, and for nothing else: no call
\* is made before the curvature filter has run, the first call is
\* setVerticalBounds, call i + 1 is addHorizontalCurve of polyline i, trace
\* returns when every polyline has had its call, and while the calls are
\* made the list changes in the polyline being output only.
C6_BoundsOnceThenOneCurvePerSurvivor ==
    /\ [](/\ pc \notin OutputPhase => output = <<>>
          /\ pc \in OutputPhase =>
                 /\ CallsOf("setVerticalBounds") = {1}
                 /\ CallsOf("addHorizontalCurve") = 2 .. curve_it + 1
                 /\ Len(output) = curve_it + 1
                 /\ curve_it <= Len(polylines)
                 /\ \A i \in 1 .. curve_it : output[i + 1].polyline = polylines[i]
          /\ pc = "done" => curve_it = Len(polylines))
    /\ [][OutputKeepsList]_vars

\* trace has returned after two polylines survived both filters.
C6_Witness ==
    /\ pc = "done"
    /\ Len(polylines) = 2
    /\ Len(output) = 3
    /\ polylines[1] # polylines[2]

Abs(x) == IF x < 0 THEN -x ELSE x

Sgn(x) == IF x < 0 THEN -1 ELSE IF x > 0 THEN 1 ELSE 0

\* The x coordinate of pt less that of the bound line at the height of pt,
\* times the height of the line: negative to the left of the line, positive
\* to the right of it, zero on it (and for a line of no height).
OffsetFromLine(line, pt) ==
    (pt[1] - line.p1[1]) * Abs(line.p2[2] - line.p1[2])
        - (pt[2] - line.p1[2]) * (line.p2[1] - line.p1[1])
              * Sgn(line.p2[2] - line.p1[2])

\* On the inward side of, or on, both bound lines.
InsideBothBounds(pt) ==
    /\ OffsetFromLine(left_bound, pt) >= 0
    /\ OffsetFromLine(right_bound, pt) <= 0

HasEndpointInside(polyline) ==
    InsideBothBounds(polyline[1]) \/ InsideBothBounds(polyline[Len(polyline)])

\* C9: filterOutOfBoundsCurves removes every polyline whose first and last
\* points are both outside the inward half-planes of the bound lines, and
\* keeps, in their order, every polyline that has at least one of its two
\* endpoints on the inward side of, or on, both bound lines.
C9_KeepsPolylinesWithAnEndpointInside ==
    [][pc = "filter_bounds" /\ pc' = "refine" =>
           polylines' = SelectSeq(polylines, HasEndpointInside)]_vars

\* The filter is about to run on a polyline with both endpoints outside and
\* on a polyline with one endpoint outside and one inside.
C9_Witness ==
    /\ pc = "filter_bounds"
    /\ \E i \in 1 .. Len(polylines) : ~HasEndpointInside(polylines[i])
    /\ \E i \in 1 .. Len(polylines) :
           /\ HasEndpointInside(polylines[i])
           /\ ~(InsideBothBounds(polylines[i][1])
                  /\ InsideBothBounds(polylines[i][Len(polylines[i])]))

HasTwoPoints(polyline) == Len(polyline) = 2

HasAtMostTwoPoints(polyline) == Len(polyline) <= 2

\* C10: the curvature filter keeps every polyline that has exactly two points
\* and removes every polyline that has one point or no point, whatever the
\* coordinates: of the polylines of at most two points, the ones of exactly
\* two points are left, in their order.
C10_KeepsTwoPointsDropsFewer ==
    [][pc = "filter_edgy" /\ pc' = "output_bounds" =>
           SelectSeq(polylines', HasAtMostTwoPoints)
               = SelectSeq(polylines, HasTwoPoints)]_vars

\* The filter is about to run on a polyline of two points and on a polyline
\* of fewer.
C10_Witness ==
    /\ pc = "filter_edgy"
    /\ \E i \in 1 .. Len(polylines) : Len(polylines[i]) = 2
    /\ \E i \in 1 .. Len(polylines) : Len(polylines[i]) <= 1

(***************************************************************************)
(* The statements "if (dbg) { ... }" of the stages above, and the pipeline *)
(* from labelAndGrowRegions to the return of trace().                      *)
(***************************************************************************)
AllButNode ==
    <<pc, width, height, grid, thick_mask, regions, queue, iteration, edges,
      left_bound, right_bound, pathVars, traceVars, dbg, calcVars, viewVars>>

AllButCalc ==
    <<pc, width, height, grid, thick_mask, regions, queue, iteration, edges,
      left_bound, right_bound, pathVars, traceVars, dbg, nodeVars, viewVars>>

AllButView ==
    <<pc, width, height, grid, thick_mask, regions, queue, iteration, edges,
      left_bound, right_bound, pathVars, traceVars, dbg, nodeVars, calcVars>>

AllButDbg ==
    <<pc, width, height, grid, thick_mask, regions, queue, iteration, edges,
      left_bound, right_bound, pathVars, traceVars, nodeVars, calcVars, viewVars>>

\* labelAndGrowRegions: "Visualize regions and seeds." and "Visualize region
\* connectivity."
DebugRegions ==
    /\ pc = "edge_nodes"
    /\ ~DbgPassed("connectivity")
    /\ dbg' = DbgAdd(DbgAdd(dbg, "regions"), "connectivity")
    /\ UNCHANGED AllButDbg

\* segmentBlurredTextLines: "Visualize refined graph."
DebugRefinedGraph ==
    /\ pc = "polylines"
    /\ ~DbgPassed("refined_graph")
    /\ dbg' = DbgAdd(dbg, "refined_graph")
    /\ UNCHANGED AllButDbg

\* The statement with the polylines moved into the image that is added.
DebugExtendedMovesPolylines ==
    /\ pc = "filter_bounds"
    /\ ~DbgPassed("extended")
    /\ dbg' = DbgAdd(dbg, "extended")
    /\ polylines' = <<>>
    /\ UNCHANGED <<nodeVars, calcVars, viewVars, pc, width, height, grid, thick_mask, regions, queue, iteration,
                   edges, left_bound, right_bound, pathVars, to_orig, curve_it,
                   output>>

\* trace: dbg->add(visualizePolylines(downscaled, polylines), "extended")
DebugExtended ==
    /\ pc = "filter_bounds"
    /\ ~DbgPassed("extended")
    /\ dbg' = DbgAdd(dbg, "extended")
    /\ UNCHANGED AllButDbg

\* trace: dbg->add(visualizePolylines(...), "edgy_curves_removed")
DebugEdgyCurvesRemoved ==
    /\ pc = "output_bounds"
    /\ ~DbgPassed("edgy_curves_removed")
    /\ dbg' = DbgAdd(dbg, "edgy_curves_removed")
    /\ UNCHANGED AllButDbg

\* SpecPipeline: labelAndGrowRegions and what follows it up to the return
\* of trace(), on an image of PipeWidth x PipeHeight pixels, with a null
\* debug sink or with a debug sink.
\* The thick masks: every pixel, or none.
PipeMasks == {(0 .. PipeWidth - 1) \X (0 .. PipeHeight - 1), {}}

\* The region lists: up to MaxRegions centroids, all different, in the order
\* of the scan that numbers the seed blobs.
PipeRegionLists ==
    {<<>>} \cup UNION {
        {rs \in [1 .. n -> CellsOf(PipeWidth, PipeHeight)] :
            \A i \in 1 .. n - 1 :
                rs[i][2] * PipeWidth + rs[i][1] < rs[i + 1][2] * PipeWidth + rs[i + 1][1]}
        : n \in 1 .. MaxRegions}

\* The vertical bounds: the two sides of the image, two null lines, or two
\* lines along the first scanline, which intersect no scanline.
PipeVertBounds ==
    {<<QLineF(<<0, 0>>, <<0, PipeHeight>>),
       QLineF(<<PipeWidth - 1, 0>>, <<PipeWidth - 1, PipeHeight>>)>>,
     <<NullLine, NullLine>>,
     <<QLineF(<<0, 0>>, <<PipeWidth, 0>>), QLineF(<<PipeWidth, 0>>, <<0, 0>>)>>}

InitPipeline ==
    /\ pc = "centroids"
    /\ width = PipeWidth
    /\ height = PipeHeight
    /\ thick_mask \in PipeMasks
    /\ \E g \in 0 .. MaxGray :
           grid = [o \in GridOffsets |->
                      IF IsInterior(o)
                      THEN GridNode(BlurredPixel(g, XOf(o), YOf(o)), 0,
                                    1 - MaskBit(XOf(o), YOf(o)))
                      ELSE PaddingNode]
    /\ \E rs \in PipeRegionLists :
           regions = [i \in 1 .. Len(rs) |-> Region(rs[i])]
    /\ queue = <<>>
    /\ iteration = 0
    /\ edges = {}
    /\ \E vb \in PipeVertBounds : left_bound = vb[1] /\ right_bound = vb[2]
    /\ InitPathVars
    /\ InitTraceVars
    /\ dbg \in {NullSink, EmptySink}
    /\ InitNodeVars

NextPipeline ==
    \/ PutCentroids
    \/ GrowStep
    \/ DistanceGrowth
    \/ MarkEdgeRegions
    \/ FindConnections
    \/ DebugRegions
    \/ CreateEdgeNodes
    \/ ConnectEdges
    \/ SeedQueue
    \/ SearchStep
    \/ ExtractPaths
    \/ DebugRefinedGraph
    \/ ToPolylines
    \/ ExtendPolylines
    \/ DebugExtended
    \/ FilterOutOfBounds
    \/ Refine
    \/ FilterEdgy
    \/ DebugEdgyCurvesRemoved
    \/ SetVerticalBounds
    \/ AddHorizontalCurve
    \/ TraceReturn

SpecPipeline == InitPipeline /\ [][NextPipeline]_vars

(***************************************************************************)
(* Properties of the pipeline, under SpecPipeline.                         *)
(***************************************************************************)
\* C11: with no region seed (an empty list of regions), the stages run to
\* the return of trace() with no label in the grid, no edge, no edge-node,
\* no path and no polyline, and addHorizontalCurve is never called; neither
\* the flood nor the path search nor the output loop has a turn to take, so
\* each stage goes on to the next.
C11_NoSeedNoPolyline ==
    Len(regions) = 0 =>
        /\ \A o \in InteriorOffsets : Label(grid[o]) = 0
        /\ queue = <<>>
        /\ edges = {}
        /\ edge_nodes = <<>>
        /\ path_queue = <<>>
        /\ edge_node_paths = <<>>
        /\ polylines = <<>>
        /\ curve_it = 0
        /\ CallsOf("addHorizontalCurve") = {}

\* trace() has returned on an image with ink and no seed, after the call of
\* setVerticalBounds alone.
C11_Witness ==
    /\ pc = "done"
    /\ Len(regions) = 0
    /\ thick_mask # {}
    /\ Len(output) = 1

NoBoundaryLines == ~Intersects(left_bound) /\ ~Intersects(right_bound)

Marked == {"connections", "edge_nodes", "connect_edges", "seed", "search",
           "polylines", "extend", "filter_bounds", "refine", "filter_edgy",
           "output_bounds", "output_curves", "done"}

RegionsInColumn(x) ==
    {RegionIdxOf(grid[GridOffset(x, y)]) :
        y \in {yy \in 0 .. height - 1 : ValidRegion(grid[GridOffset(x, yy)])}}

SinkStepWritesSinkOnly ==
    dbg' # dbg =>
        /\ ~dbg.null
        /\ ~dbg'.null
        /\ Len(dbg'.images) > Len(dbg.images)
        /\ SubSeq(dbg'.images, 1, Len(dbg.images)) = dbg.images
        /\ UNCHANGED AllButDbg

CentroidOf(region_idx) == RegionAt(region_idx).centroid

\* C14: for every winning path of k >= 1 edges, the polyline has k + 1
\* points, and for each i its i-th and (i+1)-th points are the centroids of
\* the two distinct regions joined by the i-th edge of the path (for k = 1
\* the centroids of the lesser and of the greater region, in this order);
\* no centroid appears twice in a row.
C14_PolylineFollowsPathEdges ==
    pc = "extend" =>
        /\ Len(polylines) = Len(edge_node_paths)
        /\ \A p \in 1 .. Len(edge_node_paths) :
               LET path == edge_node_paths[p]
                   polyline == polylines[p]
               IN  /\ Len(polyline) = Len(path) + 1
                   /\ \A i \in 1 .. Len(path) :
                          LET edge == edge_nodes[path[i] + 1].edge
                          IN  /\ {polyline[i], polyline[i + 1]}
                                     = {CentroidOf(edge.lesserRegionIdx),
                                        CentroidOf(edge.greaterRegionIdx)}
                              /\ polyline[i] # polyline[i + 1]
                   /\ Len(path) = 1 =>
                          polyline = <<CentroidOf(edge_nodes[path[1] + 1].edge.lesserRegionIdx),
                                       CentroidOf(edge_nodes[path[1] + 1].edge.greaterRegionIdx)>>

(***************************************************************************)
(* Properties of the curvature filter, under SpecTrace.                    *)
(***************************************************************************)
\* The turn of the polyline at its interior vertex v (2 <= v < Len): the
\* cross product of the segment into v and the segment out of v, and the
\* product of their squared lengths.
TurnAt(polyline, v) ==
    LET into == <<polyline[v][1] - polyline[v - 1][1], polyline[v][2] - polyline[v - 1][2]>>
        out == <<polyline[v + 1][1] - polyline[v][1], polyline[v + 1][2] - polyline[v][2]>>
    IN  [cross |-> into[1] * out[2] - into[2] * out[1],
         sqlens |-> (into[1] * into[1] + into[2] * into[2])
                       * (out[1] * out[1] + out[2] * out[2])]

\* The squared cosine between the segment out of v and the normal of the
\* segment into v is at least cos^2(84 deg) = 0.0109262 (in units of 10^-7).
SignificantAt(polyline, v) ==
    LET turn == TurnAt(polyline, v)
    IN  /\ turn.sqlens > 0
        /\ FixedDiv(turn.cross * turn.cross, turn.sqlens) >= 109262

HasSignificantPositive(polyline) ==
    \E v \in 2 .. Len(polyline) - 1 :
        SignificantAt(polyline, v) /\ TurnAt(polyline, v).cross > 0

HasSignificantNegative(polyline) ==
    \E v \in 2 .. Len(polyline) - 1 :
        SignificantAt(polyline, v) /\ TurnAt(polyline, v).cross < 0

\* The polylines of three or more points with the property P, in the order
\* of the list.
LongWith(list, P(_)) ==
    SelectSeq(list, LAMBDA polyline : Len(polyline) >= 3 /\ P(polyline))

Mixed(polyline) == HasSignificantPositive(polyline) /\ HasSignificantNegative(polyline)

OneSigned(polyline) == ~Mixed(polyline)

AnyCurve(polyline) == TRUE

NoSignificantPositive(polyline) == ~HasSignificantPositive(polyline)

\* C15 as stated: the curvature filter rejects a polyline of three or more
\* points only if its significant curvature is of one sign, and never
\* rejects a polyline that has both a vertex of significant positive and a
\* vertex of significant negative curvature.
C15_MixedCurvesAreKept ==
    [][(pc = "filter_edgy" /\ pc' = "output_bounds") =>
           LongWith(polylines', Mixed) = LongWith(polylines, Mixed)]_vars

\* C15, amended: the curvature filter rejects a polyline of three or more
\* points only if it has a vertex of significant positive curvature, and
\* it always rejects a polyline that has both a vertex of significant
\* positive and a vertex of significant negative curvature.
C15_MixedCurvesAreRejected ==
    [][(pc = "filter_edgy" /\ pc' = "output_bounds") =>
           /\ LongWith(polylines', NoSignificantPositive)
                  = LongWith(polylines, NoSignificantPositive)
           /\ LongWith(polylines', Mixed) = <<>>]_vars

\* The filter is about to run on a polyline that turns significantly both
\* ways and on one that turns significantly the negative way only.
C15_Witness ==
    /\ pc = "filter_edgy"
    /\ \E i \in 1 .. Len(polylines) :
           Len(polylines[i]) >= 3 /\ Mixed(polylines[i])
    /\ \E i \in 1 .. Len(polylines) :
           /\ Len(polylines[i]) >= 3
           /\ HasSignificantNegative(polylines[i])
           /\ ~HasSignificantPositive(polylines[i])

FloodTurn == pc = "flood" /\ queue # <<>> /\ iteration' = iteration + 1

\* The place in the queue, which is in the order of enqueueing, of the cell
\* that the turn pops.
PoppedIndex ==
    CHOOSE i \in 1 .. Len(queue) :
        /\ Len(queue') >= Len(queue) - 1
        /\ SubSeq(queue', 1, Len(queue) - 1) = QueuePop(queue, i)

QueuedGray(i) == GrayLevel(grid[queue[i].gridOffset])

PopsEarliestEnqueued ==
    FloodTurn =>
        \A j \in 1 .. Len(queue) :
            /\ QueuedGray(PoppedIndex) <= QueuedGray(j)
            /\ QueuedGray(PoppedIndex) = QueuedGray(j) => PoppedIndex <= j

PopsEarliestTurn ==
    FloodTurn =>
        \A j \in 1 .. Len(queue) :
            /\ QueuedGray(PoppedIndex) <= QueuedGray(j)
            /\ QueuedGray(PoppedIndex) = QueuedGray(j)
                   => queue[PoppedIndex].order <= queue[j].order

Adjacent(p, q) ==
    \/ p[2] = q[2] /\ (p[1] = q[1] + 1 \/ q[1] = p[1] + 1)
    \/ p[1] = q[1] /\ (p[2] = q[2] + 1 \/ q[2] = p[2] + 1)

LabelAt(p) == Label(grid[GridOffset(p[1], p[2])])

\* The cell <<x, y>> of the grid, padding included, holds the centroid of a
\* region.
IsCentroid(x, y) ==
    \E r \in 1 .. Len(regions) : regions[r].centroid = <<x, y>>

\* The cells of the grid with its padding of one cell on every side.
PaddedCells == (-1 .. width) \X (-1 .. height)

InImage(x, y) == 0 <= x /\ x < width /\ 0 <= y /\ y < height

\* During the flood and at its end, labels are on centroids and inside the
\* mask only, and the padding is neither labeled nor queued.
FloodStaysInMask ==
    pc = "flood" =>
        /\ \A c \in PaddedCells :
               (c \notin thick_mask /\ ~IsCentroid(c[1], c[2])) =>
                   Label(grid[GridOffset(c[1], c[2])]) = 0
        /\ \A i \in 1 .. Len(queue) :
               \E c \in CellsOf(width, height) :
                   /\ queue[i].gridOffset = GridOffset(c[1], c[2])
                   /\ c \in thick_mask \/ IsCentroid(c[1], c[2])

\* A turn of the flood leaves the label of a finalized cell as it was.
FloodKeepsFinalized ==
    FloodTurn =>
        \A c \in PaddedCells :
            LET o == GridOffset(c[1], c[2])
            IN  Finalized(grid[o]) = 1 =>
                    (Label(grid'[o]) = Label(grid[o]) /\ Finalized(grid'[o]) = 1)

\* C18: the flood labels only seed centroids and cells inside the image and
\* the thick mask: during the flood and when the queue empties every cell
\* outside the thick mask other than a seed centroid has label 0, no
\* padding cell is labeled or enqueued, and the flood never relabels a
\* finalized cell.
C18_FloodStaysInMaskKeepsFinalized ==
    [](FloodStaysInMask) /\ [][FloodKeepsFinalized]_vars

\* The flood has ended after labeling a cell that is no centroid, next to
\* an unlabeled cell outside the mask, with a centroid outside the mask.
C18_Witness ==
    /\ pc = "flood"
    /\ queue = <<>>
    /\ iteration >= 2
    /\ \E r \in 1 .. Len(regions) : regions[r].centroid \notin thick_mask
    /\ \E p \in thick_mask : \E q \in CellsOf(width, height) \ thick_mask :
           /\ ~IsCentroid(p[1], p[2])
           /\ LabelAt(p) # 0
           /\ Adjacent(p, q)
           /\ LabelAt(q) = 0

(***************************************************************************)
(* Properties of the scan for connections, under SpecGrow.                 *)
(***************************************************************************)
\* Two adjacent pixels of the thick mask carry the labels of the regions a
\* and b.
TouchInMask(a, b) ==
    \E p \in thick_mask : \E q \in thick_mask :
        Adjacent(p, q) /\ LabelAt(p) = a + 1 /\ LabelAt(q) = b + 1

\* C19: after the growth the edge set holds Edge(a, b) if and only if a
\* and b differ and two horizontally or vertically adjacent pixels, both
\* inside the thick mask, carry the valid labels of the regions a and b;
\* a pair with a pixel outside the thick mask makes no edge.
C19_EdgeIffAdjacentInMask ==
    pc = "edge_nodes" =>
        /\ \A a \in 0 .. Len(regions) - 1 : \A b \in 0 .. Len(regions) - 1 :
               Edge(a, b) \in edges <=> (a # b /\ TouchInMask(a, b))
        /\ \A e \in edges :
               \E a \in 0 .. Len(regions) - 1 : \E b \in 0 .. Len(regions) - 1 :
                   e = Edge(a, b)

\* Two regions touch in a pair of pixels of which one is outside the thick
\* mask, and nowhere inside it; the scan has left the edge set empty.
C19_Witness ==
    /\ pc = "edge_nodes"
    /\ edges = {}
    /\ thick_mask # {}
    /\ \E p \in thick_mask : \E q \in CellsOf(width, height) \ thick_mask :
           /\ Adjacent(p, q)
           /\ LabelAt(p) # 0 /\ LabelAt(q) # 0
           /\ LabelAt(p) # LabelAt(q)

(***************************************************************************)
(* Properties of markEdgeRegions, under SpecGrow.                          *)
(***************************************************************************)
\* The bound line is neither null nor along the scanlines, so that it
\* crosses every scanline.
Crosses(bound) == bound.p1[2] # bound.p2[2]

\* Twice the distance, times |dy|, from the column c to the point where the
\* bound crosses the scanline y, positive when the point is right of c.
TwiceOffsetOfCrossing(bound, y, c) ==
    LET dx == bound.p2[1] - bound.p1[1]
        dy == bound.p2[2] - bound.p1[2]
    IN  Sgn(dy) * 2 * ((bound.p1[1] - c) * dy + (y - bound.p1[2]) * dx)

\* The column of the image nearest to the point where the bound crosses the
\* scanline y: the column the point rounds to, or the first or the last
\* column when that one is outside the image.
CrossingColumn(bound, y) ==
    LET size == Abs(bound.p2[2] - bound.p1[2])
    IN  IF TwiceOffsetOfCrossing(bound, y, 0) < -size THEN 0
        ELSE IF TwiceOffsetOfCrossing(bound, y, width - 1) >= size THEN width - 1
        ELSE CHOOSE c \in 0 .. width - 1 :
                 /\ -size <= TwiceOffsetOfCrossing(bound, y, c)
                 /\ TwiceOffsetOfCrossing(bound, y, c) < size

\* On some scanline the cell where the bound crosses it has the label of
\* the region.
CrossedIn(bound, region_idx) ==
    /\ Crosses(bound)
    /\ \E y \in 0 .. height - 1 :
           LabelAt(<<CrossingColumn(bound, y), y>>) = region_idx + 1

\* On some scanline the cell in the given column has the label of the
\* region.
InColumn(x, region_idx) ==
    \E y \in 0 .. height - 1 : LabelAt(<<x, y>>) = region_idx + 1

FlagsStay ==
    \A r \in 1 .. Len(regions) :
        /\ regions[r].leftmost => regions'[r].leftmost
        /\ regions[r].rightmost => regions'[r].rightmost

SharedRegions(m, n) == EndsOf(edge_nodes[m + 1].edge) \cap EndsOf(edge_nodes[n + 1].edge)

\* The vector from the centroid of the region r to the centroid of the
\* other region of the edge of the edge-node n.
FromShared(r, n) ==
    LET other == CHOOSE q \in EndsOf(edge_nodes[n + 1].edge) : q # r
    IN  <<CentroidOf(other)[1] - CentroidOf(r)[1], CentroidOf(other)[2] - CentroidOf(r)[2]>>

\* The vectors v and w are within 15 degrees of pointing in opposite
\* directions: with d = -(v . w) and c = |v x w|, d > 0 and
\* c / d <= tan(15 deg) = 2 - sqrt(3), that is c <= 2d and
\* (2d - c)^2 >= 3 d^2.
StraightOn(v, w) ==
    LET d == -(v[1] * w[1] + v[2] * w[2])
        c == Abs(v[1] * w[2] - v[2] * w[1])
    IN  d > 0 /\ c <= 2 * d /\ d * d + c * c >= 4 * d * c

\* max(0, 1 - cos^2) for the vectors v and w, in units of 10^-7.
StraightOnCost(v, w) ==
    LET d == v[1] * w[1] + v[2] * w[2]
        cos_sq == FixedDiv(d * d, (v[1] * v[1] + v[2] * v[2]) * (w[1] * w[1] + w[2] * w[2]))
    IN  IF cos_sq >= ONE THEN 0 ELSE ONE - cos_sq

\* The places in the list of transitions of the edge-node m that lead to n.
TransitionPlaces(m, n) ==
    {k \in 1 .. Len(edge_nodes[m + 1].connectedEdges) :
        edge_nodes[m + 1].connectedEdges[k].edgeNodeIdx = n}

TransitionsMade == pc \notin {"edge_nodes", "connect_edges"}

\* C21: two distinct edges at one region have a transition if and only if
\* the vectors from the region's centroid to the centroids at their other
\* ends are within 15 degrees of a straight continuation; the transition
\* is in the lists of both edge-nodes with the one cost max(0, 1 - cos^2);
\* edges that share no region have no transition.
C21_TransitionIffStraightOn ==
    TransitionsMade =>
        \A m \in EdgeNodeIdxs : \A n \in EdgeNodeIdxs \ {m} :
            IF SharedRegions(m, n) = {}
            THEN TransitionPlaces(m, n) = {}
            ELSE LET r == CHOOSE q \in SharedRegions(m, n) : TRUE
                     v == FromShared(r, m)
                     w == FromShared(r, n)
                 IN  /\ Cardinality(SharedRegions(m, n)) = 1
                     /\ TransitionPlaces(m, n) # {} <=> StraightOn(v, w)
                     /\ StraightOn(v, w) =>
                            /\ Cardinality(TransitionPlaces(m, n)) = 1
                            /\ Cardinality(TransitionPlaces(n, m)) = 1
                            /\ TransitionCosts(m, n) = {StraightOnCost(v, w)}
                            /\ TransitionCosts(n, m) = {StraightOnCost(v, w)}

\* The transitions are made: one region has two edges with a transition
\* of a cost above 0, one has two edges too far from a straight line for
\* one, and two edges share no region.
C21_Witness ==
    /\ pc = "seed"
    /\ \E m \in EdgeNodeIdxs : \E n \in EdgeNodeIdxs \ {m} :
           /\ SharedRegions(m, n) # {}
           /\ TransitionPlaces(m, n) # {}
           /\ \E cost \in TransitionCosts(m, n) : cost > 0
    /\ \E m \in EdgeNodeIdxs : \E n \in EdgeNodeIdxs \ {m} :
           /\ SharedRegions(m, n) # {}
           /\ TransitionPlaces(m, n) = {}
    /\ \E m \in EdgeNodeIdxs : \E n \in EdgeNodeIdxs \ {m} :
           SharedRegions(m, n) = {}

(***************************************************************************)
(* Properties of the paths and of their polylines, under SpecPath.         *)
(***************************************************************************)
PathsExtracted == pc \in {"polylines", "extend"}

\* C22: in every path of extractEdegeNodePaths each two consecutive
\* edge-nodes are distinct edges that share exactly one region, so that
\* findConnectingRegion never returns the invalid index and the assertion
\* of edgeSequencesToPolylines holds.
C22_ConsecutiveEdgesShareOneRegion ==
    PathsExtracted =>
        \A p \in 1 .. Len(edge_node_paths) :
            /\ \A k \in 1 .. Len(edge_node_paths[p]) :
                   edge_node_paths[p][k] \in EdgeNodeIdxs
            /\ \A k \in 1 .. Len(edge_node_paths[p]) - 1 :
                   LET m == edge_node_paths[p][k]
                       n == edge_node_paths[p][k + 1]
                   IN  /\ m # n
                       /\ edge_nodes[m + 1].edge # edge_nodes[n + 1].edge
                       /\ Cardinality(SharedRegions(m, n)) = 1
                       /\ FindConnectingRegion(edge_nodes[m + 1].edge,
                                               edge_nodes[n + 1].edge)
                              \in SharedRegions(m, n)

\* The polylines are made, one of them from a path of three edge-nodes or
\* more.
C22_Witness ==
    /\ pc = "extend"
    /\ \E p \in 1 .. Len(edge_node_paths) :
           /\ Len(edge_node_paths[p]) >= 3
           /\ Len(polylines[p]) = Len(edge_node_paths[p]) + 1

\* The edge-node reached from n by following prevEdgeNodeIdx k times;
\* NO_INDEX once the index followed is the null one.
RECURSIVE PrevTimes(_, _)
PrevTimes(n, k) ==
    IF k = 0 \/ n = NO_INDEX THEN n
    ELSE PrevTimes(edge_nodes[n + 1].prevEdgeNodeIdx, k - 1)

\* The edge-node n has the region r at one of its ends.
Touches(n, r) == r \in EndsOf(edge_nodes[n + 1].edge)

\* Following prevEdgeNodeIdx from the edge-node t reaches after k steps,
\* over edge-nodes that all differ and without following a null index, the
\* first edge-node at the leftmost region recorded for t.
WalkEndsAfter(t, k) ==
    /\ \A j \in 0 .. k : PrevTimes(t, j) # NO_INDEX
    /\ \A j \in 0 .. k - 1 : ~Touches(PrevTimes(t, j), OriginOf(t))
    /\ Touches(PrevTimes(t, k), OriginOf(t))
    /\ \A i \in 0 .. k : \A j \in 0 .. k : i # j => PrevTimes(t, i) # PrevTimes(t, j)

\* C23: from every winning terminal edge-node the predecessor pointers
\* lead, in finitely many steps, never through the null index of a seeded
\* edge-node and never through an edge-node twice, to an edge-node at the
\* recorded leftmost region; that walk is the path extracted.
C23_WalkEndsAtOrigin ==
    PathsExtracted =>
        \A p \in 1 .. Len(edge_node_paths) :
            /\ edge_node_paths[p] # <<>>
            /\ LET t == edge_node_paths[p][1]
                   k == Len(edge_node_paths[p]) - 1
               IN  /\ OriginOf(t) # NO_INDEX
                   /\ k < Len(edge_nodes)
                   /\ WalkEndsAfter(t, k)
                   /\ \A j \in 0 .. k : edge_node_paths[p][j + 1] = PrevTimes(t, j)

\* A walk of two steps or more has ended at a seeded edge-node, whose
\* previous index is null.
C23_Witness ==
    /\ pc = "polylines"
    /\ \E p \in 1 .. Len(edge_node_paths) :
           LET path == edge_node_paths[p]
           IN  /\ Len(path) >= 3
               /\ edge_nodes[path[Len(path)] + 1].prevEdgeNodeIdx = NO_INDEX
               /\ edge_nodes[path[Len(path)] + 1].pathCost = 0

(***************************************************************************)
(* SpecNode: a GridNode taken by itself, constructed from any field values *)
(* and then changed by its mutators with any arguments.  A label argument  *)
(* is a value of the field plus NodeMaxCarry or fewer times 2^LABEL_BITS.  *)
(***************************************************************************)
NodeGrays == (0 .. NodeMaxGray) \cup {255}

NodeLabels ==
    {low + carry * 2 ^ LABEL_BITS : low \in 0 .. NodeMaxLabel, carry \in 0 .. NodeMaxCarry}

InitNode ==
    /\ pc = "node"
    /\ width = 0
    /\ height = 0
    /\ grid = <<>>
    /\ thick_mask = {}
    /\ regions = <<>>
    /\ queue = <<>>
    /\ iteration = 0
    /\ edges = {}
    /\ left_bound = NullLine
    /\ right_bound = NullLine
    /\ InitPathVars
    /\ InitTraceVars
    /\ dbg = NullSink
    /\ \E gray_level \in NodeGrays : \E label \in 0 .. NodeMaxLabel :
       \E finalized \in 0 .. 1 :
           node = GridNode(gray_level, label, finalized)
    /\ node_call = <<>>
    /\ calc = [sumX |-> 0, sumY |-> 0, numSamples |-> 0]
    /\ samples = <<>>
    /\ view = <<>>
    /\ tasks = <<>>

CallSetGrayLevel ==
    /\ pc = "node"
    /\ \E gray_level \in NodeGrays :
           /\ node' = SetGrayLevel(node, gray_level)
           /\ node_call' = <<"setGrayLevel", gray_level>>
    /\ UNCHANGED AllButNode

CallSetLabel ==
    /\ pc = "node"
    /\ \E label \in NodeLabels :
           /\ node' = SetLabel(node, label)
           /\ node_call' = <<"setLabel", label>>
    /\ UNCHANGED AllButNode

CallSetRegionIdx ==
    /\ pc = "node"
    /\ \E label \in NodeLabels :
           /\ node' = SetRegionIdx(node, label - 1)
           /\ node_call' = <<"setRegionIdx", label - 1>>
    /\ UNCHANGED AllButNode

\* assert(finalized <= 1)
CallSetFinalized ==
    /\ pc = "node"
    /\ \E finalized \in 0 .. 1 :
           /\ node' = SetFinalized(node, finalized)
           /\ node_call' = <<"setFinalized", finalized>>
    /\ UNCHANGED AllButNode

NextNode ==
    \/ CallSetGrayLevel
    \/ CallSetLabel
    \/ CallSetRegionIdx
    \/ CallSetFinalized

SpecNode == InitNode /\ [][NextNode]_vars

(***************************************************************************)
(* Properties of GridNode, under SpecNode.                                 *)
(***************************************************************************)
\* A call of a mutator leaves the two fields that are not its own to read
\* back as before.
OwnFieldOnly ==
    node_call' # node_call =>
        /\ node_call'[1] = "setGrayLevel" =>
               Label(node') = Label(node) /\ Finalized(node') = Finalized(node)
        /\ node_call'[1] \in {"setLabel", "setRegionIdx"} =>
               GrayLevel(node') = GrayLevel(node) /\ Finalized(node') = Finalized(node)
        /\ node_call'[1] = "setFinalized" =>
               GrayLevel(node') = GrayLevel(node) /\ Label(node') = Label(node)

\* C24: for every grid cell value and every argument, setGrayLevel,
\* setLabel (and setRegionIdx) and setFinalized change their own field
\* only; a label update alters neither the finalized flag nor the gray
\* level.
C24_MutatorsChangeOwnFieldOnly == [][OwnFieldOnly]_vars

(***************************************************************************)
(* class CentroidCalculator, taken by itself: the samples of one region,   *)
(* which initRegions hands over pixel by pixel.                            *)
(***************************************************************************)
\* CentroidCalculator() : m_sumX(0), m_sumY(0), m_numSamples(0) {}
CentroidCalculator == [sumX |-> 0, sumY |-> 0, numSamples |-> 0]

\* void processSample(int x, int y)
ProcessSample(c, x, y) ==
    [sumX |-> c.sumX + x, sumY |-> c.sumY + y, numSamples |-> c.numSamples + 1]

\* centroid() with the half left out of the two divisions.
CentroidTruncated(c) ==
    IF c.numSamples = 0
    THEN <<0, 0>>
    ELSE <<c.sumX \div c.numSamples, c.sumY \div c.numSamples>>

\* QPoint centroid() const.  The sums are of coordinates x >= 0 and y >= 0,
\* where the division of C++ and \div agree.
Centroid(c) ==
    IF c.numSamples = 0
    THEN <<0, 0>>
    ELSE LET half_num_samples == c.numSamples \div 2
         IN  <<(c.sumX + half_num_samples) \div c.numSamples,
               (c.sumY + half_num_samples) \div c.numSamples>>

\* The pixels initRegions can hand to one calculator: 0 <= x < width and
\* 0 <= y < height.
SamplePixels == (0 .. CalcMaxX) \X (0 .. CalcMaxY)

InitCalc ==
    /\ pc = "calc"
    /\ width = CalcMaxX + 1
    /\ height = CalcMaxY + 1
    /\ grid = <<>>
    /\ thick_mask = {}
    /\ regions = <<>>
    /\ queue = <<>>
    /\ iteration = 0
    /\ edges = {}
    /\ left_bound = NullLine
    /\ right_bound = NullLine
    /\ InitPathVars
    /\ InitTraceVars
    /\ dbg = NullSink
    /\ node = [gray |-> 0, label |-> 0, finalized |-> 0]
    /\ node_call = <<>>
    /\ calc = CentroidCalculator
    /\ samples = <<>>
    /\ view = <<>>
    /\ tasks = <<>>

\* centroid_calculators[label - 1].processSample(x, y);
CallProcessSample ==
    /\ pc = "calc"
    /\ Len(samples) < CalcMaxSamples
    /\ \E p \in SamplePixels :
           /\ calc' = ProcessSample(calc, p[1], p[2])
           /\ samples' = Append(samples, p)
    /\ UNCHANGED AllButCalc

NextCalc == CallProcessSample

SpecCalc == InitCalc /\ [][NextCalc]_vars

(***************************************************************************)
(* Properties of CentroidCalculator, under SpecCalc.                       *)
(***************************************************************************)
RECURSIVE SumOf(_)
SumOf(seq) == IF seq = <<>> THEN 0 ELSE Head(seq) + SumOf(Tail(seq))

\* The coordinates of the samples on one axis (1: x, 2: y).
Coords(axis) == [k \in 1 .. Len(samples) |-> samples[k][axis]]

\* m is the arithmetic mean of seq rounded half-up: m <= mean + 1/2 < m + 1.
IsHalfUpMean(m, seq) ==
    LET n == Len(seq)
        s == SumOf(seq)
    IN  /\ 2 * n * m <= 2 * s + n
        /\ 2 * s + n < 2 * n * (m + 1)

RECURSIVE ProcessAll(_, _)
ProcessAll(c, seq) ==
    IF seq = <<>> THEN c
    ELSE ProcessAll(ProcessSample(c, Head(seq)[1], Head(seq)[2]), Tail(seq))

\* The samples in the order a permutation p of their positions gives.
Reordered(p) == [k \in 1 .. Len(samples) |-> samples[p[k]]]

\* C25: for every non-empty multiset of pixels with non-negative
\* coordinates the centroid is, on each axis, the arithmetic mean of the
\* coordinates rounded half-up, and it is the same in whatever order the
\* pixels are processed.
C25_CentroidIsHalfUpMeanInAnyOrder ==
    samples # <<>> =>
        /\ IsHalfUpMean(Centroid(calc)[1], Coords(1))
        /\ IsHalfUpMean(Centroid(calc)[2], Coords(2))
        /\ \A p \in Permutations(1 .. Len(samples)) :
               Centroid(ProcessAll(CentroidCalculator, Reordered(p))) = Centroid(calc)

\* Pixels that are not all the same, with a mean that is rounded up on the x
\* axis and rounded down on the y axis.
C25_Witness ==
    /\ pc = "calc"
    /\ Len(samples) >= 2
    /\ \E j, k \in 1 .. Len(samples) : samples[j] # samples[k]
    /\ Centroid(calc)[1] * calc.numSamples > calc.sumX
    /\ Centroid(calc)[2] * calc.numSamples < calc.sumY

(***************************************************************************)
(* class ImageViewBase: the high-quality pixmap, the timer that delays its *)
(* rebuilding, and the HqTransformTask objects that build it in the        *)
(* background.  A transform is a number; a pixmap or an image is null or   *)
(* is what transform() made it from: an image and a transform.             *)
(***************************************************************************)
\* The values m_imageToVirtual * m_virtualToWidget takes.
Xforms == 0 .. ViewMaxXform

\* QTransform(): m_hqXform and m_potentialHqXform as the constructor leaves
\* them.
QTransform == 0

\* m_image.cacheKey(); m_image is never assigned to.
ImageCacheKey == 1

\* QPixmap(), QImage()
NullPixmap == [isNull |-> TRUE, xform |-> QTransform, source |-> ImageCacheKey]

\* transform(m_image, m_xform, target_rect, ...)
HqImage(image, xform) == [isNull |-> FALSE, xform |-> xform, source |-> image]

\* new HqTransformTask(this, m_image, xform, size()), with its Result
HqTransformTask(image, xform) ==
    [m_image |-> image, m_xform |-> xform, m_cancelFlag |-> 0,
     stage |-> "queued", m_hqImage |-> NullPixmap]

\* isCancelled() that never sees the flag.
IsCancelledNever(task) == FALSE

\* bool isCancelled() const { return m_cancelFlag.fetchAndAddRelaxed(0) != 0; }
IsCancelled(task) == task.m_cancelFlag # 0

\* m_ptrHqTransformTask->cancel(); m_ptrHqTransformTask.reset();
\* under if (m_ptrHqTransformTask.get()).  The pointer is 0 when null.
CancelAndReset(v, ts) ==
    IF v.m_ptrHqTransformTask = 0
    THEN <<v, ts>>
    ELSE <<[v EXCEPT !.m_ptrHqTransformTask = 0],
           [ts EXCEPT ![v.m_ptrHqTransformTask].m_cancelFlag = 1]>>

\* bool ImageViewBase::validateHqPixmap() const
ValidateHqPixmap(v) ==
    IF ~v.m_hqTransformEnabled THEN FALSE
    ELSE IF v.m_hqPixmap.isNull THEN FALSE
    ELSE IF v.m_hqSourceId # ImageCacheKey THEN FALSE
    ELSE IF v.m_hqXform # v.xform THEN FALSE
    ELSE TRUE

\* void ImageViewBase::hqTransformSetEnabled(bool const enabled)
HqTransformSetEnabled(v, ts, enabled) ==
    IF ~enabled /\ v.m_hqTransformEnabled
    THEN LET r == CancelAndReset([v EXCEPT !.m_hqTransformEnabled = FALSE], ts)
         IN  <<[r[1] EXCEPT !.m_hqPixmap = NullPixmap], r[2]>>
    ELSE IF enabled /\ ~v.m_hqTransformEnabled
    THEN <<[v EXCEPT !.m_hqTransformEnabled = TRUE], ts>>
    ELSE <<v, ts>>

\* void ImageViewBase::scheduleHqVersionRebuild()
ScheduleHqVersionRebuild(v, ts) ==
    IF ~v.timerActive \/ v.m_potentialHqXform # v.xform
    THEN LET r == CancelAndReset(v, ts)
         IN  <<[r[1] EXCEPT !.m_potentialHqXform = v.xform, !.timerActive = TRUE],
               r[2]>>
    ELSE <<v, ts>>

\* void ImageViewBase::initiateBuildingHqVersion()
InitiateBuildingHqVersion(v, ts) ==
    IF ValidateHqPixmap(v)
    THEN <<v, ts>>
    ELSE LET r == CancelAndReset([v EXCEPT !.m_hqPixmap = NullPixmap], ts)
         IN  <<[r[1] EXCEPT !.m_ptrHqTransformTask = Len(ts) + 1,
                            !.m_hqXform = v.xform,
                            !.m_hqSourceId = ImageCacheKey],
               Append(r[2], HqTransformTask(ImageCacheKey, v.xform))>>

\* hqVersionBuilt() that does not look at m_hqTransformEnabled.
HqVersionBuiltInAnyMode(v, image) ==
    [v EXCEPT !.m_hqPixmap = image, !.m_ptrHqTransformTask = 0]

\* void ImageViewBase::hqVersionBuilt(QPoint const& origin, QImage const& image)
HqVersionBuilt(v, image) ==
    IF ~v.m_hqTransformEnabled
    THEN v
    ELSE [v EXCEPT !.m_hqPixmap = image, !.m_ptrHqTransformTask = 0]

\* The view as its constructor leaves it.  m_hqSourceId has no initializer:
\* it holds any value.
InitView ==
    /\ pc = "view"
    /\ width = 0
    /\ height = 0
    /\ grid = <<>>
    /\ thick_mask = {}
    /\ regions = <<>>
    /\ queue = <<>>
    /\ iteration = 0
    /\ edges = {}
    /\ left_bound = NullLine
    /\ right_bound = NullLine
    /\ InitPathVars
    /\ InitTraceVars
    /\ dbg = NullSink
    /\ node = [gray |-> 0, label |-> 0, finalized |-> 0]
    /\ node_call = <<>>
    /\ calc = [sumX |-> 0, sumY |-> 0, numSamples |-> 0]
    /\ samples = <<>>
    /\ \E xform \in Xforms : \E source_id \in {ImageCacheKey, ImageCacheKey + 1} :
           view = [alive |-> TRUE,
                   m_hqTransformEnabled |-> TRUE,
                   xform |-> xform,
                   m_hqPixmap |-> NullPixmap,
                   m_hqXform |-> QTransform,
                   m_hqSourceId |-> source_id,
                   m_potentialHqXform |-> QTransform,
                   timerActive |-> FALSE,
                   m_ptrHqTransformTask |-> 0]
    /\ tasks = <<>>

\* updateTransform and the other handlers that assign m_imageToVirtual or
\* m_virtualToWidget.
UpdateTransform ==
    /\ pc = "view"
    /\ view.alive
    /\ \E xform \in Xforms \ {view.xform} :
           /\ view' = [view EXCEPT !.xform = xform]
    /\ UNCHANGED <<tasks, AllButView>>

\* void ImageViewBase::paintEvent(QPaintEvent* const event)
PaintEvent ==
    /\ pc = "view"
    /\ view.alive
    /\ IF ValidateHqPixmap(view)
       THEN UNCHANGED <<view, tasks>>
       ELSE LET r == ScheduleHqVersionRebuild(view, tasks)
            IN  /\ view' = r[1]
                /\ tasks' = r[2]
    /\ UNCHANGED AllButView

\* m_timer: timeout() of the single-shot timer, connected to
\* initiateBuildingHqVersion().
TimerTimeout ==
    /\ pc = "view"
    /\ view.alive
    /\ view.timerActive
    /\ ValidateHqPixmap(view) \/ Len(tasks) < ViewMaxTasks
    /\ LET r == InitiateBuildingHqVersion([view EXCEPT !.timerActive = FALSE], tasks)
       IN  /\ view' = r[1]
           /\ tasks' = r[2]
    /\ UNCHANGED AllButView

CallHqTransformSetEnabled ==
    /\ pc = "view"
    /\ view.alive
    /\ \E enabled \in BOOLEAN :
           LET r == HqTransformSetEnabled(view, tasks, enabled)
           IN  /\ view' = r[1]
               /\ tasks' = r[2]
    /\ UNCHANGED AllButView

\* ImageViewBase::~ImageViewBase(): the QPointer of every Result becomes null.
DestroyView ==
    /\ pc = "view"
    /\ view.alive
    /\ view' = [view EXCEPT !.alive = FALSE]
    /\ UNCHANGED <<tasks, AllButView>>

\* HqTransformTask::operator()() in the background thread, up to its test
\* of isCancelled().
TaskBegins ==
    /\ pc = "view"
    /\ \E t \in 1 .. Len(tasks) :
           /\ tasks[t].stage = "queued"
           /\ tasks' = [tasks EXCEPT ![t].stage =
                            IF IsCancelled(tasks[t]) THEN "dropped" ELSE "running"]
    /\ UNCHANGED <<view, AllButView>>

\* The rest of HqTransformTask::operator()(): transform(), setData() and the
\* return of m_ptrResult.  An empty target_rect gives a null image.
TaskEnds ==
    /\ pc = "view"
    /\ \E t \in 1 .. Len(tasks) :
           /\ tasks[t].stage = "running"
           /\ \E image \in {HqImage(tasks[t].m_image, tasks[t].m_xform), NullPixmap} :
                  tasks' = [tasks EXCEPT ![t].stage = "posted", ![t].m_hqImage = image]
    /\ UNCHANGED <<view, AllButView>>

\* HqTransformTask::Result::operator()() in the thread of the view: the
\* result is delivered to hqVersionBuilt(), or discarded.
ResultDelivered ==
    /\ pc = "view"
    /\ \E t \in 1 .. Len(tasks) :
           /\ tasks[t].stage = "posted"
           /\ IF view.alive /\ ~IsCancelled(tasks[t])
              THEN /\ tasks' = [tasks EXCEPT ![t].stage = "delivered"]
                   /\ view' = HqVersionBuilt(view, tasks[t].m_hqImage)
              ELSE /\ tasks' = [tasks EXCEPT ![t].stage = "discarded"]
                   /\ view' = view
    /\ UNCHANGED AllButView

NextView ==
    \/ UpdateTransform
    \/ PaintEvent
    \/ TimerTimeout
    \/ CallHqTransformSetEnabled
    \/ DestroyView
    \/ TaskBegins
    \/ TaskEnds
    \/ ResultDelivered

SpecView == InitView /\ [][NextView]_vars

(***************************************************************************)
(* Properties of the HQ pixmap, under SpecView.                            *)
(***************************************************************************)
\* C26: whenever validateHqPixmap returns true, the high-quality mode is
\* enabled and the stored HQ pixmap was computed from the current image with
\* the current image-to-widget transform; a pixmap built for an older
\* transform is never reported valid.
C26_ValidPixmapIsOfCurrentTransform ==
    ValidateHqPixmap(view) =>
        /\ view.m_hqTransformEnabled
        /\ ~view.m_hqPixmap.isNull
        /\ view.m_hqPixmap.source = ImageCacheKey
        /\ view.m_hqPixmap.xform = view.xform

\* The pixmap is reported valid after a task for another transform was
\* cancelled with its result already computed.
C26_Witness ==
    /\ pc = "view"
    /\ ValidateHqPixmap(view)
    /\ \E t \in 1 .. Len(tasks) :
           /\ tasks[t].m_cancelFlag = 1
           /\ tasks[t].stage = "discarded"
           /\ ~tasks[t].m_hqImage.isNull
           /\ tasks[t].m_xform # view.xform

\* While the high-quality mode is disabled the HQ pixmap is null.
DisabledPixmapEmpty == ~view.m_hqTransformEnabled => view.m_hqPixmap.isNull

\* The delivery of the result of a task that was cancelled, or a delivery
\* made while the high-quality mode is disabled, leaves the HQ pixmap as it
\* was.
DeliveryKeepsPixmap ==
    \A t \in 1 .. Len(tasks) :
        /\ tasks[t].stage = "posted"
        /\ tasks'[t].stage \in {"delivered", "discarded"}
        /\ tasks[t].m_cancelFlag = 1 \/ ~view.m_hqTransformEnabled
        => view'.m_hqPixmap = view.m_hqPixmap

\* C30: the result of an HQ transform task never becomes the HQ pixmap of
\* the view if the task was cancelled before the delivery of its result or
\* if the high-quality mode is disabled at the delivery; while the
\* high-quality mode is disabled the HQ pixmap stays empty.
C30_CancelledOrDisabledNeverDelivered ==
    [](DisabledPixmapEmpty) /\ [][DeliveryKeepsPixmap]_vars

\* The view is alive and its HQ pixmap is null, after the computed result
\* of one task was discarded for the cancellation of the task and that of
\* another was handed to hqVersionBuilt() while the mode was disabled.
C30_Witness ==
    /\ pc = "view"
    /\ view.alive
    /\ view.m_hqPixmap.isNull
    /\ \E t, u \in 1 .. Len(tasks) :
           /\ tasks[t].stage = "discarded"
           /\ ~tasks[t].m_hqImage.isNull
           /\ tasks[u].stage = "delivered"
           /\ ~tasks[u].m_hqImage.isNull
           /\ tasks[u].m_cancelFlag = 0
           /\ view.m_ptrHqTransformTask = u

(***************************************************************************)
(* The frame of distanceDrivenRegionGrowth, under SpecGrow.                *)
(***************************************************************************)
\* The step that calls distanceDrivenRegionGrowth keeps the label of every
\* node that has a valid one, and the finalized flag and the gray level of
\* every node.
GrowthKeepsLabeledNodes ==
    pc = "flood" /\ pc' = "mark" =>
        \A o \in GridOffsets :
            /\ ValidRegion(grid[o]) => Label(grid'[o]) = Label(grid[o])
            /\ Finalized(grid'[o]) = Finalized(grid[o])
            /\ GrayLevel(grid'[o]) = GrayLevel(grid[o])

\* C27: distanceDrivenRegionGrowth never changes the label of a cell that
\* had a valid label when it was called, and never changes the finalized
\* flag or the gray level of any cell.
C27_GrowthKeepsLabelsFlagsAndGrays == [][GrowthKeepsLabeledNodes]_vars

\* After the call, a node has a label and is not finalized (it got its label
\* from the call), a node has a gray level other than 0, and two labels are
\* on the grid.
C27_Witness ==
    /\ pc = "mark"
    /\ \E o \in InteriorOffsets : ValidRegion(grid[o]) /\ Finalized(grid[o]) = 0
    /\ \E o \in InteriorOffsets : GrayLevel(grid[o]) # 0
    /\ \E o, p \in InteriorOffsets :
           /\ ValidRegion(grid[o])
           /\ ValidRegion(grid[p])
           /\ Label(grid[o]) # Label(grid[p])

(***************************************************************************)
(* The search loop of segmentBlurredTextLines, under SpecPath.             *)
(***************************************************************************)
\* The edge-nodes that were popped: they have a path cost and are not in the
\* queue.
PoppedNodes(nodes) ==
    {i \in 0 .. Len(nodes) - 1 :
        nodes[i + 1].pathCost # MAX_PATH_COST /\ nodes[i + 1].heapIdx = NO_INDEX}

InPathQueue(q, i) == \E k \in 1 .. Len(q) : q[k] = i

\* An edge-node is in the queue at most once, and it is there exactly when
\* its heapIdx says so.
QueueHoldsEachOnce ==
    /\ \A j, k \in 1 .. Len(path_queue) : j # k => path_queue[j] # path_queue[k]
    /\ \A i \in 0 .. Len(edge_nodes) - 1 :
           InPathQueue(path_queue, i) <=> edge_nodes[i + 1].heapIdx # NO_INDEX

\* A turn of the search loop leaves every popped edge-node as it is and out
\* of the queue, and pops one edge-node that was not popped before.
PoppedStaySettled ==
    pc = "search" /\ pc' = "search" /\ path_queue' # path_queue =>
        /\ \A i \in PoppedNodes(edge_nodes) :
               /\ edge_nodes'[i + 1].pathCost = edge_nodes[i + 1].pathCost
               /\ edge_nodes'[i + 1].prevEdgeNodeIdx = edge_nodes[i + 1].prevEdgeNodeIdx
               /\ edge_nodes'[i + 1].leftmostRegionIdx = edge_nodes[i + 1].leftmostRegionIdx
               /\ ~InPathQueue(path_queue', i)
        /\ \E k \in 1 .. Len(path_queue) :
               /\ path_queue[k] \notin PoppedNodes(edge_nodes)
               /\ PoppedNodes(edge_nodes') = PoppedNodes(edge_nodes) \cup {path_queue[k]}

\* C28: once an edge-node has been popped, its path cost, predecessor and
\* leftmost origin never change again and it is never pushed again; each
\* edge-node is in the queue at most once at a time and is popped at most
\* once, so the loop ends after at most as many pops as there are
\* edge-nodes.
C28_PoppedEdgeNodesAreSettled ==
    [](QueueHoldsEachOnce) /\ [][PoppedStaySettled]_vars

\* The loop has ended after three pops or more, and an edge-node popped
\* after its predecessor had a transition back to it.
C28_Witness ==
    /\ pc = "search"
    /\ path_queue = <<>>
    /\ Cardinality(PoppedNodes(edge_nodes)) >= 3
    /\ \E j \in PoppedNodes(edge_nodes) :
           /\ edge_nodes[j + 1].prevEdgeNodeIdx # NO_INDEX
           /\ \E k \in 1 .. Len(edge_nodes[j + 1].connectedEdges) :
                  edge_nodes[j + 1].connectedEdges[k].edgeNodeIdx =
                      edge_nodes[j + 1].prevEdgeNodeIdx

(***************************************************************************)
(* SpecLine: segmentBlurredTextLines from the point where                  *)
(* labelAndGrowRegions has returned, for a line of text that runs level:   *)
(* four seed blobs on one scanline, the first marked leftmost and the      *)
(* third rightmost, with a fifth blob below them.  The thick mask joins    *)
(* any of the first LineEdgePairs pairs of LineCandidateEdges.             *)
(***************************************************************************)
LineCentroids == <<<<0, 5>>, <<10, 5>>, <<20, 5>>, <<30, 5>>, <<10, 9>>>>

LineLeftmost == {0}

LineRightmost == {2}

LineCandidateEdges ==
    <<<<0, 1>>, <<1, 2>>, <<2, 3>>, <<0, 2>>, <<4, 2>>, <<0, 4>>, <<1, 4>>>>

\* The k-th numbering of the regions: the number given to the blob i.
\* 0 is the order of the scan, 1 its reverse, the others are rotations.
LineRenumber(k, i) ==
    IF k = 0 THEN i
    ELSE IF k = 1 THEN Len(LineCentroids) - 1 - i
    ELSE (i + k - 1) % Len(LineCentroids)

LineBlobOf(k, region_idx) ==
    CHOOSE i \in 0 .. Len(LineCentroids) - 1 : LineRenumber(k, i) = region_idx

LineRegions(k) ==
    [j \in 1 .. Len(LineCentroids) |->
        [Region(LineCentroids[LineBlobOf(k, j - 1) + 1]) EXCEPT
            !.leftmost = LineBlobOf(k, j - 1) \in LineLeftmost,
            !.rightmost = LineBlobOf(k, j - 1) \in LineRightmost]]

LineEdges(k, S) ==
    {Edge(LineRenumber(k, LineCandidateEdges[e][1]),
          LineRenumber(k, LineCandidateEdges[e][2])) : e \in S}

InitLine ==
    /\ pc = "edge_nodes"
    /\ width = 0
    /\ height = 0
    /\ grid = <<>>
    /\ thick_mask = {}
    /\ queue = <<>>
    /\ iteration = 0
    /\ left_bound = QLineF(<<0, 0>>, <<0, 12>>)
    /\ right_bound = QLineF(<<20, 0>>, <<20, 12>>)
    /\ \E k \in 0 .. LineNumberings - 1 :
       \E S \in SUBSET (1 .. LineEdgePairs) :
           /\ regions = LineRegions(k)
           /\ edges = LineEdges(k, S)
    /\ InitPathVars
    /\ dbg = NullSink
    /\ InitNodeVars
    /\ InitTraceVars

SpecLine == InitLine /\ [][NextPath]_vars

(***************************************************************************)
(* The ends of the polylines of edgeSequencesToPolylines, under SpecLine.  *)
(***************************************************************************)
\* The polylines are made: polyline k is that of path k, no path being
\* empty.
PolylinesMade == pc = "extend" /\ Len(polylines) = Len(edge_node_paths)

RightmostCentroids ==
    {regions[r].centroid : r \in {q \in 1 .. Len(regions) : regions[q].rightmost}}

\* The centroid of the leftmost region recorded for the terminal of path k.
OriginCentroid(k) ==
    regions[edge_nodes[edge_node_paths[k][1] + 1].leftmostRegionIdx + 1].centroid

FromRightmostToOrigin(k) ==
    /\ polylines[k][1] \in RightmostCentroids
    /\ polylines[k][Len(polylines[k])] = OriginCentroid(k)

\* C29 as claimed: every polyline has the centroid of a region marked
\* rightmost as its first point and the centroid of the leftmost origin
\* recorded for its path as its last point.
C29_PolylineFromRightmostToOrigin ==
    PolylinesMade => \A k \in 1 .. Len(polylines) : FromRightmostToOrigin(k)

\* The two centroids of the edge of the only edge-node of path k, that of
\* the lesser region first.
SingleEdgeEnds(k) ==
    LET edge == edge_nodes[edge_node_paths[k][1] + 1].edge
    IN  <<regions[edge.lesserRegionIdx + 1].centroid,
          regions[edge.greaterRegionIdx + 1].centroid>>

EndsOfPolyline(k) ==
    IF Len(edge_node_paths[k]) = 1
    THEN /\ polylines[k] = SingleEdgeEnds(k)
         /\ \E j \in 1 .. 2 : polylines[k][j] \in RightmostCentroids
         /\ \E j \in 1 .. 2 : polylines[k][j] = OriginCentroid(k)
    ELSE /\ polylines[k][Len(polylines[k])] = OriginCentroid(k)
         /\ \E j \in 1 .. 2 : polylines[k][j] \in RightmostCentroids

\* C29 amended: a polyline of a path of two or more edge-nodes has the
\* centroid of the leftmost origin recorded for its path as its last point
\* and the centroid of a region marked rightmost as its first or its second
\* point; a polyline of a single-edge path is the centroids of the two
\* regions of the edge, that of the lesser index first, one of them of a
\* region marked rightmost and one of them of the recorded leftmost origin.
C29_PolylineEnds ==
    PolylinesMade => \A k \in 1 .. Len(polylines) : EndsOfPolyline(k)

\* A polyline of three edges that starts beyond the rightmost region, which
\* is its second point, and ends at the leftmost origin.
C29_Witness ==
    /\ PolylinesMade
    /\ \E k \in 1 .. Len(polylines) :
           /\ Len(edge_node_paths[k]) = 3
           /\ polylines[k][1] \notin RightmostCentroids
           /\ polylines[k][2] \in RightmostCentroids
           /\ polylines[k][4] = OriginCentroid(k)

====
